---- MODULE Spec2Model ----
(***************************************************************************)
(* Tool-calling orchestration loop of the rental assistant.                *)
(*                                                                         *)
(* Two front-ends share the protocol: App.py (direct REST backend, OpenAI  *)
(* client used inline) and webhook_streamlit_app.py (webhook backend,      *)
(* AssistantManager).  The variable "variant" selects the front-end whose  *)
(* code an action follows.                                                 *)
(*                                                                         *)
(* Specifications:                                                         *)
(*   Spec       one session: ensure_thread, send_message, process_run and  *)
(*              the remote assistant service they talk to                  *)
(*   SpecScript the same session driven by the UI script                   *)
(*   SpecRetry  one provider network call: call_webhook_with_retry and     *)
(*              make_api_request against an arbitrary backend              *)
(*   SpecProvider  one call of one provider operation                      *)
(*   SpecSessions  two sessions of one process, interleaved                *)
(*   SpecManager   two constructions of AssistantManager, interleaved      *)
(*   SpecTurn      Spec with process_run called again and again and the    *)
(*                 service working on each run until it has ended          *)
(*   SpecAssistant calls of AssistantManager.get_or_create_assistant       *)
(***************************************************************************)
EXTENDS Integers, Sequences, FiniteSets, TLC

\* ------------------------------------------------------------------------
\* Bounds of the model
\* ------------------------------------------------------------------------
\* send_message calls in one behaviour
MaxSends == 2
\* assistant messages the remote service writes during one run
MaxPosts == 2
\* tool calls in one requires_action batch
MaxCalls == 2
\* requires_action batches the remote service raises in one behaviour
MaxBatches == 2
\* completed turns (one user message, one assistant message each) that a
\* long-lived session may already hold when the behaviour starts
HistTurns == 10

\* ------------------------------------------------------------------------
\* Constants of the program and of the remote API it calls
\* ------------------------------------------------------------------------
\* messages.list is called without a limit: one page of the service's
\* default size is returned and only its .data is read
PageLimit == 20
\* st.session_state.messages[0]["id"] == "welcome_message"; remote ids are
\* the positive positions of the messages in the thread
WelcomeId == 0

\* Python's None: as a handle or id (integers), and as a name (strings)
None == -1
Unset == "None"

Variants == {"app", "webhook"}

\* The remote assistant is explored in two regimes, so that the depth of the
\* conversation and the width of the tool batches do not multiply:
\*   "turns"  several turns, the runs write messages and ask for no tool
\*   "tools"  one turn of a fresh session, the run asks for tool batches and
\*            writes no message
Focuses == {"turns", "tools"}

VARIABLES
  variant,            \* which front-end runs the session
  focus,              \* what the remote assistant does in this behaviour
  assistant_manager,  \* "None" | "set": the session's manager / OpenAI client
  thread_id,          \* st.session_state.thread_id: None or the remote thread
  run_id,             \* st.session_state.run_id: None or the index of a run
  messages,           \* st.session_state.messages (message_log)
  st_errors,          \* kinds of st.error raised by the last call
  last,               \* last call of the session: operation, status seen,
                      \* result; tick: parity of the calls made so far
  threads_created,    \* remote: threads created for this session
  thread,             \* remote: roles of the thread's messages, id = position
  runs_created,       \* remote: runs created on the thread, a run's id = its rank
  run_status,         \* remote: status of the newest run
  posts,              \* remote: assistant messages written by the newest run
  tool_calls,         \* remote: pending tool calls of the newest run
  calls_issued,       \* remote: tool-call ids handed out so far
  batches,            \* remote: requires_action batches raised so far
  submitted,          \* remote: tool_outputs received for the last batch
  submit_count,       \* remote: submit_tool_outputs calls the newest run accepted
  sends,              \* send_message calls made
  dispatched,         \* tool-call ids dispatched so far, and ids submitted
  script_pc,          \* where the UI script stands: "top" | "input"
  \* --- one provider network call (SpecRetry) ---
  r_fn,               \* "webhook": call_webhook_with_retry, "api": make_api_request
  r_arg,              \* the webhook name, or the HTTP method of the API request
  r_key,              \* st.session_state.api_key is set (make_api_request)
  r_pc,               \* "start" | "request" | "sleep" | "done"
  r_attempt,          \* the loop variable attempt
  r_requests,         \* requests.post / requests.get calls made
  r_delays,           \* the time.sleep calls made, in tenths of a unit
  r_responses,        \* what the backend answered, one entry per request
  r_result,           \* "pending" | "payload" | "error" | "None"
  r_st_error,         \* st.error was called
  \* --- one provider operation (SpecProvider) ---
  p_op,               \* the handler called, "none" before any call
  p_in,               \* its arguments and what the backend holds or answers
  p_out,              \* what it returned, or that it raised
  \* --- two sessions of one process (SpecSessions) ---
  session_state,      \* st.session_state of each session
  svc_threads,        \* remote: the threads, a thread's id = its rank
  acting,             \* the session whose call made the last step, 0: remote
  \* --- constructions of AssistantManager (SpecManager) ---
  m_instance,         \* AssistantManager._instance: None or an object
  m_objects,          \* the objects created, with their attributes
  m_calls,            \* each constructing thread: position, argument, self
  \* --- get_or_create_assistant (SpecAssistant) ---
  a_file,             \* the id saved in assistant_id.txt, None: no such file
  a_self,             \* the manager's self.assistant_id
  a_remote,           \* remote: ids of the assistants the service holds
  a_created,          \* remote: assistants created so far, an id = its rank
  a_last              \* the last get_or_create_assistant call

vars == <<variant, focus, assistant_manager, thread_id, run_id, messages, st_errors,
          last, threads_created, thread, runs_created, run_status, posts,
          tool_calls,
          calls_issued, batches, submitted, submit_count, sends, dispatched,
          script_pc,
          r_fn, r_arg, r_key, r_pc, r_attempt, r_requests, r_delays,
          r_responses, r_result, r_st_error, p_op, p_in, p_out,
          session_state, svc_threads, acting, m_instance, m_objects, m_calls,
          a_file, a_self, a_remote, a_created, a_last>>

retryVars == <<r_fn, r_arg, r_key, r_pc, r_attempt, r_requests, r_delays,
               r_responses, r_result, r_st_error>>
providerVars == <<p_op, p_in, p_out>>
sessionsVars == <<session_state, svc_threads, acting>>
managerVars == <<m_instance, m_objects, m_calls>>
assistantVars == <<a_file, a_self, a_remote, a_created, a_last>>
\* what the two-session, the manager and the assistant specifications add
otherVars == <<sessionsVars, managerVars, assistantVars>>
sessionVars == <<thread_id, run_id, messages>>
remoteVars == <<threads_created, thread, runs_created, run_status, posts,
                tool_calls, calls_issued, batches, submitted, submit_count>>

\* ------------------------------------------------------------------------
\* Messages
\* ------------------------------------------------------------------------
\* a user entry of message_log carries no "id" key
UserEntryWithId == [role |-> "user", id |-> 0]
UserEntry == [role |-> "user"]
AssistantEntry(id) == [role |-> "assistant", id |-> id]
WelcomeEntry == AssistantEntry(WelcomeId)

\* st.session_state.messages.append({...})
InsertEntryFirst(log, entry) == <<entry>> \o log
AppendEntry(log, entry) == Append(log, entry)

\* "for m in st.session_state.messages: if 'id' in m and m['id'] == message.id"
MessageExistsNever(log, id) == FALSE
MessageExists(log, id) ==
  \E k \in 1..Len(log) : "id" \in DOMAIN log[k] /\ log[k].id = id

\* last_message_id: the id of messages[-1] when that entry has one, else None
LastMessageId(log) ==
  IF Len(log) > 0 /\ "id" \in DOMAIN log[Len(log)]
  THEN log[Len(log)].id
  ELSE None

\* client.beta.threads.messages.list(thread_id, order="asc", after=...).data:
\* the ids after the watermark, ascending, cut to one page
RECURSIVE IdsFrom(_, _, _)
IdsFrom(lo, hi, n) ==
  IF lo > hi \/ n = 0 THEN <<>> ELSE <<lo>> \o IdsFrom(lo + 1, hi, n - 1)

ListMessages(th, after) ==
  IdsFrom((IF after = None THEN 0 ELSE after) + 1, Len(th), PageLimit)

\* the loop over the page: the first assistant message that is not yet in
\* the log (the loop is left there by st.rerun()), 0 when there is none
RECURSIVE FirstNew(_, _, _)
FirstNew(page, th, log) ==
  IF page = <<>> THEN 0
  ELSE IF th[Head(page)] = "assistant" /\ ~MessageExists(log, Head(page))
       THEN Head(page)
       ELSE FirstNew(Tail(page), th, log)

\* ids of the assistant entries of a log, in log order, the welcome entry left out
RECURSIVE LogAssistantIds(_)
LogAssistantIds(log) ==
  IF log = <<>> THEN <<>>
  ELSE IF "id" \in DOMAIN Head(log) /\ Head(log).id # WelcomeId
       THEN <<Head(log).id>> \o LogAssistantIds(Tail(log))
       ELSE LogAssistantIds(Tail(log))

\* ids of the assistant messages of the remote thread, ascending
RECURSIVE ThreadAssistantIdsFrom(_, _)
ThreadAssistantIdsFrom(th, i) ==
  IF i > Len(th) THEN <<>>
  ELSE IF th[i] = "assistant"
       THEN <<i>> \o ThreadAssistantIdsFrom(th, i + 1)
       ELSE ThreadAssistantIdsFrom(th, i + 1)
ThreadAssistantIds(th) == ThreadAssistantIdsFrom(th, 1)

\* a session that already went through n turns of one user and one assistant
\* message each: what the thread and the log hold afterwards
RECURSIVE HistThread(_)
HistThread(n) ==
  IF n = 0 THEN <<>> ELSE HistThread(n - 1) \o <<"user", "assistant">>
RECURSIVE HistLog(_)
HistLog(n) ==
  IF n = 0 THEN <<WelcomeEntry>>
  ELSE HistLog(n - 1) \o <<UserEntry, AssistantEntry(2 * n)>>

\* ------------------------------------------------------------------------
\* Tool dispatch: execute_function and the handlers behind it
\* ------------------------------------------------------------------------
\* the function names each front-end's execute_function knows
RegisteredWithoutReservation(v) ==
  IF v = "app"
  THEN {"list_product_groups", "get_product_group", "check_availability",
        "get_product_pricing", "create_customer", "create_order", "book_order"}
  ELSE {"list_product_groups", "get_product_details"}
Registered(v) ==
  IF v = "app"
  THEN {"list_product_groups", "get_product_group", "check_availability",
        "get_product_pricing", "create_customer", "create_order", "book_order"}
  ELSE {"list_product_groups", "get_product_details", "create_reservation"}

\* the handlers whose body is wrapped in try/except Exception
HandlerCatches(v, name) ==
  IF v = "app"
  THEN name \in {"check_availability", "get_product_pricing", "create_order",
                 "book_order"}
  ELSE name \in {"get_product_details", "create_reservation"}

\* the keys of a handler's success payload
SuccessFields(v, name) ==
  CASE name = "list_product_groups" -> {"product_groups", "total_count"}
    [] name = "get_product_group" ->
         {"id", "name", "description", "price", "products"}
    [] name = "check_availability" ->
         {"available", "stock_count", "needed", "planned"}
    [] name = "get_product_pricing" -> {"pricing"}
    [] name = "create_customer" -> {"customer_id", "name", "email"}
    [] name = "create_order" -> {"order_id", "status", "starts_at", "stops_at"}
    [] name = "book_order" ->
         {"order_id", "status", "grand_total", "payment_status"}
    [] name = "get_product_details" ->
         {"product_id", "name", "availability", "pricing"}
    [] name = "create_reservation" -> {"success", "message"}
    [] OTHER -> {}

\* the keys of the payload a handler returns when the backend call failed
FailureFieldsBesideSuccess(v, name) == SuccessFields(v, name) \cup {"error"}
FailureFields(v, name) ==
  IF v = "webhook" THEN {"error", "response"} ELSE {"error"}

\* what the remote service may put into a tool call
ToolNames == {"list_product_groups", "no_such_function"}
ArgKinds == {"json", "not_json"}
\* what happens inside a handler: the backend answers, the backend call
\* fails, or the handler's code hits an exception
HandlerOutcomes == {"success", "failure", "exception"}

Returned(fields) == [raised |-> FALSE, output |-> fields]
Raised == [raised |-> TRUE, output |-> {}]

\* one handler call: the payload returned, or the exception that leaves it
CallHandlerFailureRaises(v, name, h) ==
  CASE h = "success" -> Returned(SuccessFields(v, name))
    [] OTHER -> IF HandlerCatches(v, name) THEN Returned({"error"}) ELSE Raised
CallHandler(v, name, h) ==
  CASE h = "success" -> Returned(SuccessFields(v, name))
    [] h = "failure" -> Returned(FailureFields(v, name))
    [] OTHER -> IF HandlerCatches(v, name) THEN Returned({"error"}) ELSE Raised

\* execute_function(function_name, arguments).  App.py parses the arguments
\* and calls the handler with no try block; webhook_streamlit_app.py wraps
\* both in try/except and returns {"error": ...}
ExecuteFunctionUnguarded(v, name, args, h) ==
  IF args = "not_json" THEN Raised
  ELSE IF name \in Registered(v) THEN CallHandler(v, name, h)
       ELSE Returned({"error"})
ExecuteFunctionGuarded(v, name, args, h) ==
  IF args = "not_json" THEN Returned({"error"})
  ELSE IF name \in Registered(v)
       THEN IF CallHandler(v, name, h).raised THEN Returned({"error"})
            ELSE CallHandler(v, name, h)
       ELSE Returned({"error"})
ExecuteFunction(v, name, args, h) ==
  IF v = "app" THEN ExecuteFunctionUnguarded(v, name, args, h)
  ELSE ExecuteFunctionGuarded(v, name, args, h)

\* the loop over tool_calls: one {"tool_call_id", "output"} entry per call
ToolOutputsFirstOnly(v, calls, hs) ==
  IF calls = <<>> THEN <<>>
  ELSE <<[tool_call_id |-> calls[1].id,
          output |-> ExecuteFunction(v, calls[1].name, calls[1].args, hs[1]).output]>>
ToolOutputs(v, calls, hs) ==
  [i \in 1..Len(calls) |->
     [tool_call_id |-> calls[i].id,
      output |-> ExecuteFunction(v, calls[i].name, calls[i].args, hs[i]).output]]

\* the handler of a tool call runs when json.loads took the arguments and
\* the name is one of the registry
HandlerRuns(v, call) == call.args = "json" /\ call.name \in Registered(v)

\* the loop over tool_calls, from call i on: the ids of the calls that
\* execute_function was called for, in order; an exception that leaves
\* execute_function ends the loop
RECURSIVE InvokedFrom(_, _, _, _)
InvokedFrom(v, calls, hs, i) ==
  IF i > Len(calls) THEN <<>>
  ELSE IF ExecuteFunction(v, calls[i].name, calls[i].args, hs[i]).raised
       THEN <<calls[i].id>>
       ELSE <<calls[i].id>> \o InvokedFrom(v, calls, hs, i + 1)
Invoked(v, calls, hs) == InvokedFrom(v, calls, hs, 1)

\* the st.error calls made below execute_function: a handler that ran and
\* whose backend request failed has gone through the st.error of
\* call_webhook_with_retry / make_api_request
RequestErrorsSilent(v, calls, hs) == {}
RECURSIVE RequestErrorsFrom(_, _, _, _)
RequestErrorsFrom(v, calls, hs, i) ==
  IF i > Len(calls) THEN {}
  ELSE LET own == IF HandlerRuns(v, calls[i]) /\ hs[i] = "failure"
                  THEN {"provider_request"} ELSE {}
       IN IF ExecuteFunction(v, calls[i].name, calls[i].args, hs[i]).raised
          THEN own
          ELSE own \cup RequestErrorsFrom(v, calls, hs, i + 1)
RequestErrors(v, calls, hs) == RequestErrorsFrom(v, calls, hs, 1)

\* the ids of the results a submit_tool_outputs call carries
SubmittedIds(outputs) == [i \in 1..Len(outputs) |-> outputs[i].tool_call_id]

\* nothing dispatched yet
NoDispatch == [invoked |-> <<>>, submitted |-> <<>>]

\* some call of the batch lets an exception out of execute_function
AnyRaised(v, calls, hs) ==
  \E i \in 1..Len(calls) :
     ExecuteFunction(v, calls[i].name, calls[i].args, hs[i]).raised

\* ------------------------------------------------------------------------
\* Remote assistant service
\* ------------------------------------------------------------------------
ActiveStatuses == {"queued", "in_progress", "requires_action"}
FailureStatuses == {"failed", "cancelled", "expired"}
Statuses == ActiveStatuses \cup FailureStatuses \cup {"completed"}

\* runs.retrieve(thread_id, run_id).status; the session's handle is always
\* the newest run of the thread (RunHandleIsNewest)
RunStatus(id) == run_status

HasActiveRun == runs_created > 0 /\ run_status \in ActiveStatuses

\* ------------------------------------------------------------------------
\* Initial state
\* ------------------------------------------------------------------------
\* A fresh session holds the welcome entry and no handles.  A session that
\* has been used for HistTurns turns holds their messages; it is the state
\* HistTurns rounds of send_message / process_run leave behind.
InitSession(v, f, n) ==
  /\ variant = v
  /\ focus = f
  /\ assistant_manager = IF n = 0 THEN Unset ELSE "set"
  /\ thread_id = IF n = 0 THEN None ELSE 1
  /\ run_id = None
  /\ messages = HistLog(n)
  /\ st_errors = {}
  /\ last = [op |-> "none", status |-> Unset, ret |-> Unset, fault |-> "none",
             tick |-> 0]
  /\ threads_created = IF n = 0 THEN 0 ELSE 1
  /\ thread = HistThread(n)
  /\ runs_created = n
  /\ run_status = IF n = 0 THEN Unset ELSE "completed"
  /\ posts = 0
  /\ tool_calls = <<>>
  /\ calls_issued = 0
  /\ batches = 0
  /\ submitted = <<>>
  /\ submit_count = 0
  /\ sends = 0
  /\ dispatched = NoDispatch
  /\ script_pc = "top"

\* no provider call is being followed
RetryIdle ==
  /\ r_fn = "webhook" /\ r_arg = "get_products_list" /\ r_key = TRUE
  /\ r_pc = "done" /\ r_attempt = 0 /\ r_requests = 0 /\ r_delays = <<>>
  /\ r_responses = <<>> /\ r_result = "pending" /\ r_st_error = FALSE

\* no provider operation has been called
ProviderIdle == p_op = "none" /\ p_in = <<>> /\ p_out = <<>>

\* no second session is followed, no manager is being constructed
SessionsIdle == session_state = <<>> /\ svc_threads = <<>> /\ acting = 0
ManagerIdle == m_instance = None /\ m_objects = <<>> /\ m_calls = <<>>
\* no get_or_create_assistant call is followed
NoAssistantCall ==
  [ret |-> None, raised |-> FALSE, created |-> FALSE, answered |-> FALSE,
   tick |-> 0]
AssistantIdle ==
  /\ a_file = None /\ a_self = None /\ a_remote = {} /\ a_created = 0
  /\ a_last = NoAssistantCall
OthersIdle == SessionsIdle /\ ManagerIdle /\ AssistantIdle

Init ==
  /\ RetryIdle
  /\ ProviderIdle
  /\ OthersIdle
  /\ \E v \in Variants :
       \/ \E n \in {0, HistTurns} : InitSession(v, "turns", n)
       \/ InitSession(v, "tools", 0)

\* what a call did: the operation, the run status it saw, what it returned
\* (or "raise", "rerun", "sent", "created") and the fault the environment put
\* in its way
Result(op, status, ret, fault) ==
  [op |-> op, status |-> status, ret |-> ret, fault |-> fault,
   tick |-> 1 - last.tick]

\* ------------------------------------------------------------------------
\* Session operations
\* ------------------------------------------------------------------------
\* the sidebar / start-up code that sets the OpenAI key and the manager
InitAssistant ==
  /\ assistant_manager = Unset
  /\ assistant_manager' = "set"
  /\ st_errors' = {}
  /\ last' = Result("init", Unset, Unset, "none")
  /\ UNCHANGED <<retryVars, providerVars, otherVars, dispatched, variant, focus, sessionVars, remoteVars, sends>>

\* ensure_thread(): create the remote thread when the session has none
\* ("if st.session_state.thread_id is None"); a thread's id is its rank
\* among the threads created for the session.
\* ok = FALSE: threads.create raises (App.py lets it out, the webhook
\* front-end reports it with st.error)
NeedsThreadAlways(tid) == TRUE
NeedsThread(tid) == tid = None

EnsureThread ==
  \E ok \in BOOLEAN :
    /\ IF assistant_manager = Unset \/ ~NeedsThread(thread_id)
       THEN /\ UNCHANGED <<thread_id, threads_created>>
            /\ st_errors' = IF variant = "app" /\ thread_id = None
                            THEN {"no_api_key"} ELSE {}
            /\ last' = Result("ensure_thread", Unset, Unset, "none")
       ELSE IF ok
       THEN /\ thread_id' = threads_created + 1
            /\ threads_created' = threads_created + 1
            /\ st_errors' = {}
            /\ last' = Result("ensure_thread", Unset, "created", "none")
       ELSE /\ UNCHANGED <<thread_id, threads_created>>
            /\ st_errors' = IF variant = "webhook" THEN {"thread"} ELSE {}
            /\ last' = Result("ensure_thread", Unset,
                              IF variant = "webhook" THEN Unset ELSE "raise",
                              "thread")
    /\ UNCHANGED <<retryVars, providerVars, otherVars, dispatched, variant, focus, assistant_manager, run_id, messages, thread,
                   runs_created, run_status, posts, tool_calls, calls_issued,
                   batches, submitted, submit_count, sends>>

\* the remote service refuses a new message or a new run on a thread whose
\* newest run is still active, and any call may fail on the network
SendFaults == {"none", "thread", "message", "run"}

\* send_message(message)
SendMessage ==
  /\ IF focus = "turns" THEN sends < MaxSends ELSE sends = 0
  /\ \E fault \in SendFaults :
    LET needThread == NeedsThread(thread_id)
        threadFails == needThread /\ fault = "thread"
        tid == IF needThread /\ ~threadFails
               THEN threads_created + 1 ELSE thread_id
        \* "if not client: return" / "Assistant not initialized"
        refused == assistant_manager = Unset
        \* App.py: threads.create raises out of ensure_thread and send_message
        aborted == ~refused /\ threadFails /\ variant = "app"
        appended == ~refused /\ ~aborted
        msgFails == tid = None \/ fault = "message" \/ HasActiveRun
        forwarded == appended /\ ~msgFails
        started == forwarded /\ fault # "run"
        \* the webhook front-end catches the exception and reports it
        caught == variant = "webhook"
    IN
    /\ sends' = sends + 1
    /\ threads_created' = IF ~refused /\ needThread /\ ~threadFails
                          THEN threads_created + 1 ELSE threads_created
    /\ thread_id' = IF appended THEN tid ELSE thread_id
    /\ messages' = IF appended THEN AppendEntry(messages, UserEntry) ELSE messages
    /\ thread' = IF forwarded THEN Append(thread, "user") ELSE thread
    /\ runs_created' = IF started THEN runs_created + 1 ELSE runs_created
    /\ run_status' = IF started THEN "queued" ELSE run_status
    /\ run_id' = IF started THEN runs_created + 1 ELSE run_id
    /\ posts' = IF started THEN 0 ELSE posts
    /\ tool_calls' = IF started THEN <<>> ELSE tool_calls
    /\ submitted' = IF started THEN <<>> ELSE submitted
    /\ submit_count' = IF started THEN 0 ELSE submit_count
    /\ st_errors' =
         IF refused
         THEN {IF variant = "app" THEN "no_api_key" ELSE "not_initialized"}
         ELSE (IF threadFails /\ caught THEN {"thread"} ELSE {})
              \cup (IF appended /\ ~started /\ caught THEN {"send"} ELSE {})
    /\ last' = Result("send", Unset,
                      IF refused THEN Unset
                      ELSE IF started THEN "sent"
                      ELSE IF caught THEN Unset ELSE "raise",
                      IF refused \/ started THEN "none"
                      ELSE IF threadFails /\ ~caught THEN "thread"
                      ELSE IF msgFails THEN "message" ELSE "run")
    /\ UNCHANGED <<retryVars, providerVars, otherVars, dispatched, variant, focus, assistant_manager, calls_issued, batches>>

\* ------------------------------------------------------------------------
\* process_run()
\* ------------------------------------------------------------------------
\* the guards in front of the try block hold
CanProcess == assistant_manager # Unset /\ thread_id # None /\ run_id # None

\* "except Exception as e": report, drop the run handle, return False;
\* errs: the st.error calls made before the exception
RunIdAfterExceptionKept(rid) == rid
RunIdAfterException(rid) == None
ExceptPathAfter(errs, status, fault) ==
  /\ st_errors' = errs \cup {"processing"}
  /\ run_id' = RunIdAfterException(run_id)
  /\ last' = Result("process_run", status, "False", fault)
ExceptPath(status, fault) == ExceptPathAfter({}, status, fault)

\* "st.session_state.run_id = None" at the end of the completed branch and
\* of the failed / cancelled / expired branch
RunIdAfterCompletedKept(rid) == rid
RunIdAfterCompleted(rid) == None
RunIdAfterFailureKept(rid) == rid
RunIdAfterFailure(rid) == None

\* the if / elif chain over the status that runs.retrieve returned
StatusBranchQueuedIsTerminal(status) ==
  CASE status = "requires_action" -> "dispatch"
    [] status = "completed" -> "harvest"
    [] status \in FailureStatuses \cup {"queued"} -> "failed"
    [] OTHER -> "running"
StatusBranch(status) ==
  CASE status = "requires_action" -> "dispatch"
    [] status = "completed" -> "harvest"
    [] status \in FailureStatuses -> "failed"
    [] OTHER -> "running"

\* early returns: no client / manager, no thread, no run
ProcessRunIdle ==
  /\ ~CanProcess
  /\ st_errors' = IF variant = "app" /\ assistant_manager = Unset
                  THEN {"no_api_key"} ELSE {}
  /\ last' = Result("process_run", Unset,
                    IF variant = "app" THEN Unset ELSE "False", "none")
  /\ UNCHANGED <<retryVars, providerVars, otherVars, dispatched, variant, focus, assistant_manager, sessionVars, remoteVars, sends>>

\* runs.retrieve raises: in get_run_status / at the top of the try block, or
\* in AssistantManager.handle_required_actions, which retrieves the run again
\* before it looks at the tool calls
ProcessRunRetrieveFails ==
  /\ CanProcess
  /\ \E second \in BOOLEAN :
       /\ second => variant = "webhook" /\ StatusBranch(RunStatus(run_id)) = "dispatch"
       /\ ExceptPath(IF second THEN "requires_action" ELSE Unset, "retrieve")
  /\ UNCHANGED <<retryVars, providerVars, otherVars, dispatched, variant, focus, assistant_manager, thread_id, messages, remoteVars,
                 sends>>

\* status == "requires_action": dispatch every tool call, submit the outputs.
\* hs: what happens inside each handler; submitOk: submit_tool_outputs is
\* accepted; moved: the second runs.retrieve of
\* AssistantManager.handle_required_actions finds the run expired meanwhile
ProcessRunRequiresAction ==
  /\ CanProcess
  /\ StatusBranch(RunStatus(run_id)) = "dispatch"
  /\ \E hs \in [1..Len(tool_calls) -> HandlerOutcomes] :
     \E submitOk \in BOOLEAN : \E moved \in BOOLEAN :
    /\ IF variant = "webhook" /\ moved
       THEN /\ run_status' = "expired"
            /\ tool_calls' = <<>>
            /\ st_errors' = {}
            /\ last' = Result("process_run", "requires_action", "True", "moved")
            /\ UNCHANGED <<run_id, submitted, submit_count, dispatched>>
       ELSE IF AnyRaised(variant, tool_calls, hs) \/ ~submitOk
       THEN /\ ExceptPathAfter(RequestErrors(variant, tool_calls, hs),
                                "requires_action",
                                IF AnyRaised(variant, tool_calls, hs)
                                THEN "dispatch" ELSE "submit")
            /\ dispatched' =
                  [dispatched EXCEPT
                     !.invoked = @ \o Invoked(variant, tool_calls, hs)]
            /\ UNCHANGED <<run_status, tool_calls, submitted, submit_count>>
       ELSE /\ submitted' = ToolOutputs(variant, tool_calls, hs)
            /\ submit_count' = submit_count + 1
            /\ dispatched' =
                  [invoked |-> dispatched.invoked
                                 \o Invoked(variant, tool_calls, hs),
                   submitted |-> dispatched.submitted
                                   \o SubmittedIds(ToolOutputs(variant, tool_calls, hs))]
            /\ run_status' = "in_progress"
            /\ tool_calls' = <<>>
            /\ st_errors' = RequestErrors(variant, tool_calls, hs)
            /\ last' = Result("process_run", "requires_action", "True", "none")
            /\ UNCHANGED run_id
    /\ UNCHANGED <<retryVars, providerVars, otherVars, variant, focus, assistant_manager, thread_id, messages,
                   threads_created, thread, runs_created, posts, calls_issued,
                   batches, sends>>

\* status == "completed": list the messages after the watermark; the first
\* new assistant message is appended and st.rerun() leaves the function (the
\* RerunException is not an Exception, the except clause does not see it);
\* with no new message the run handle is cleared.  listOk = FALSE:
\* messages.list raises
ProcessRunCompleted ==
  /\ CanProcess
  /\ StatusBranch(RunStatus(run_id)) = "harvest"
  /\ \E listOk \in BOOLEAN :
    LET page == ListMessages(thread, LastMessageId(messages))
        new == FirstNew(page, thread, messages)
    IN
    /\ IF ~listOk
       THEN ExceptPath("completed", "list") /\ UNCHANGED messages
       ELSE IF new # 0
       THEN /\ messages' = AppendEntry(messages, AssistantEntry(new))
            /\ st_errors' = {}
            /\ last' = Result("process_run", "completed", "rerun", "none")
            /\ UNCHANGED run_id
       ELSE /\ run_id' = RunIdAfterCompleted(run_id)
            /\ st_errors' = {}
            /\ last' = Result("process_run", "completed", "False", "none")
            /\ UNCHANGED messages
    /\ UNCHANGED <<retryVars, providerVars, otherVars, dispatched, variant, focus, assistant_manager, thread_id, remoteVars, sends>>

\* status in ["failed", "cancelled", "expired"]
ProcessRunFailed ==
  /\ CanProcess
  /\ StatusBranch(RunStatus(run_id)) = "failed"
  /\ st_errors' = {"run_status"}
  /\ run_id' = RunIdAfterFailure(run_id)
  /\ last' = Result("process_run", RunStatus(run_id), "False", "none")
  /\ UNCHANGED <<retryVars, providerVars, otherVars, dispatched, variant, focus, assistant_manager, thread_id, messages, remoteVars,
                 sends>>

\* any other status: still running
ProcessRunStillRunning ==
  /\ CanProcess
  /\ StatusBranch(RunStatus(run_id)) = "running"
  /\ st_errors' = {}
  /\ last' = Result("process_run", RunStatus(run_id), "True", "none")
  /\ UNCHANGED <<retryVars, providerVars, otherVars, dispatched, variant, focus, assistant_manager, sessionVars, remoteVars, sends>>

ProcessRun ==
  \/ ProcessRunIdle
  \/ ProcessRunRetrieveFails
  \/ ProcessRunRequiresAction
  \/ ProcessRunCompleted
  \/ ProcessRunFailed
  \/ ProcessRunStillRunning

\* ------------------------------------------------------------------------
\* Steps of the remote service on the thread's newest run
\* ------------------------------------------------------------------------
RemoteStart ==
  /\ runs_created > 0 /\ run_status = "queued"
  /\ run_status' = "in_progress"
  /\ UNCHANGED <<retryVars, providerVars, otherVars, dispatched, variant, focus, assistant_manager, sessionVars, st_errors, last,
                 threads_created, thread, runs_created, posts, tool_calls,
                 calls_issued, batches, submitted, submit_count, sends>>

\* the assistant asks for a batch of tool calls; the outputs it received
\* for the batch before are used up
RemoteRequireAction ==
  /\ focus = "tools"
  /\ runs_created > 0 /\ run_status = "in_progress"
  /\ batches < MaxBatches
  /\ \E n \in 1..MaxCalls :
     \E names \in [1..n -> ToolNames] : \E args \in [1..n -> ArgKinds] :
    /\ batches' = batches + 1
    /\ run_status' = "requires_action"
    /\ tool_calls' = [i \in 1..n |-> [id |-> calls_issued + i,
                                      name |-> names[i], args |-> args[i]]]
    /\ calls_issued' = calls_issued + n
    /\ submitted' = <<>>
    /\ UNCHANGED <<retryVars, providerVars, otherVars, dispatched, variant, focus, assistant_manager, sessionVars, st_errors, last,
                   threads_created, thread, runs_created, posts,
                   submit_count, sends>>

\* the assistant writes a message into the thread
RemotePost ==
  /\ focus = "turns"
  /\ runs_created > 0 /\ run_status = "in_progress"
  /\ posts < MaxPosts
  /\ posts' = posts + 1
  /\ thread' = Append(thread, "assistant")
  /\ UNCHANGED <<retryVars, providerVars, otherVars, dispatched, variant, focus, assistant_manager, sessionVars, st_errors, last,
                 threads_created, runs_created, run_status, tool_calls,
                 calls_issued, batches, submitted, submit_count, sends>>

RemoteComplete ==
  /\ runs_created > 0 /\ run_status = "in_progress"
  /\ run_status' = "completed"
  /\ UNCHANGED <<retryVars, providerVars, otherVars, dispatched, variant, focus, assistant_manager, sessionVars, st_errors, last,
                 threads_created, thread, runs_created, posts, tool_calls,
                 calls_issued, batches, submitted, submit_count, sends>>

\* the run fails, is cancelled or expires
RemoteAbort ==
  /\ HasActiveRun
  /\ \E s \in FailureStatuses :
    /\ run_status' = s
    /\ tool_calls' = <<>>
    /\ UNCHANGED <<retryVars, providerVars, otherVars, dispatched, variant, focus, assistant_manager, sessionVars, st_errors, last,
                   threads_created, thread, runs_created, posts, calls_issued,
                   batches, submitted, submit_count, sends>>

Remote ==
  \/ RemoteStart
  \/ RemoteRequireAction
  \/ RemotePost
  \/ RemoteComplete
  \/ RemoteAbort

\* The functions of the session called in any order, as a caller of
\* send_message and process_run may; the UI script is not followed.
Next ==
  \/ InitAssistant /\ UNCHANGED script_pc
  \/ EnsureThread /\ UNCHANGED script_pc
  \/ SendMessage /\ UNCHANGED script_pc
  \/ ProcessRunIdle /\ UNCHANGED script_pc
  \/ ProcessRunRetrieveFails /\ UNCHANGED script_pc
  \/ ProcessRunRequiresAction /\ UNCHANGED script_pc
  \/ ProcessRunCompleted /\ UNCHANGED script_pc
  \/ ProcessRunFailed /\ UNCHANGED script_pc
  \/ ProcessRunStillRunning /\ UNCHANGED script_pc
  \/ RemoteStart /\ UNCHANGED script_pc
  \/ RemoteRequireAction /\ UNCHANGED script_pc
  \/ RemotePost /\ UNCHANGED script_pc
  \/ RemoteComplete /\ UNCHANGED script_pc
  \/ RemoteAbort /\ UNCHANGED script_pc

Spec == Init /\ [][Next]_vars

\* ------------------------------------------------------------------------
\* The UI script: one execution processes the active run, then reads the
\* chat input
\* ------------------------------------------------------------------------
\* "if st.session_state.run_id:"
RunPendingNever(rid) == FALSE
RunPending(rid) == rid # None

\* the script up to the chat input: with a run handle set it calls
\* process_run and starts over (st.rerun()) when that returns True or when
\* process_run itself left through st.rerun(); otherwise it goes on to the
\* chat input
ScriptProcessRun ==
  /\ script_pc = "top"
  /\ RunPending(run_id)
  /\ ProcessRun
  /\ script_pc' = IF last'.ret \in {"True", "rerun"} THEN "top" ELSE "input"

ScriptNoRun ==
  /\ script_pc = "top"
  /\ ~RunPending(run_id)
  /\ script_pc' = "input"
  /\ UNCHANGED <<retryVars, providerVars, otherVars, dispatched, variant, focus, assistant_manager,
                 sessionVars, st_errors, last, remoteVars, sends>>

\* the chat input: with a text typed and the assistant initialised the
\* script calls send_message and st.rerun(); the execution ends either way
ScriptChatInput ==
  \E typed \in BOOLEAN :
    /\ script_pc = "input"
    /\ script_pc' = "top"
    /\ IF typed /\ assistant_manager # Unset
       THEN SendMessage
       ELSE UNCHANGED <<retryVars, providerVars, otherVars, dispatched, variant, focus,
                        assistant_manager, sessionVars, st_errors, last,
                        remoteVars, sends>>

ScriptNext ==
  \/ InitAssistant /\ script_pc = "top" /\ UNCHANGED script_pc
  \/ EnsureThread /\ script_pc = "top" /\ UNCHANGED script_pc
  \/ ScriptProcessRun
  \/ ScriptNoRun
  \/ ScriptChatInput
  \/ RemoteStart /\ UNCHANGED script_pc
  \/ RemoteRequireAction /\ UNCHANGED script_pc
  \/ RemotePost /\ UNCHANGED script_pc
  \/ RemoteComplete /\ UNCHANGED script_pc
  \/ RemoteAbort /\ UNCHANGED script_pc

SpecScript == Init /\ [][ScriptNext]_vars

\* ------------------------------------------------------------------------
\* Properties of the session
\* ------------------------------------------------------------------------
\* The run handle of the session is the newest run of its thread, which is
\* why RunStatus reads run_status.
RunHandleIsNewest == run_id # None => run_id = runs_created

\* A fresh session reaches, by two turns of send_message and process_run in
\* which the assistant answers once, the state that InitSession describes
\* for two turns of history (this is not an invariant: it is reached).
HistoryOfTwoTurnsReached ==
  /\ messages = HistLog(2) /\ thread = HistThread(2)
  /\ thread_id = 1 /\ run_id = None /\ assistant_manager = "set"
  /\ threads_created = 1 /\ runs_created = 2 /\ run_status = "completed"
  /\ tool_calls = <<>> /\ submitted = <<>> /\ submit_count = 0
  /\ calls_issued = 0 /\ batches = 0 /\ st_errors = {}

\* C1: message_log never holds two entries with the same id, the welcome
\* entry's id included, whatever send_message and process_run calls were
\* made and whatever the remote run did.
C1_NoDuplicateIds ==
  \A i, j \in 1..Len(messages) :
    (i < j /\ "id" \in DOMAIN messages[i] /\ "id" \in DOMAIN messages[j])
      => messages[i].id # messages[j].id

\* C1 witness: a completed run of a later turn was processed with no
\* watermark (the last entry was the user's), so the listing started at the
\* first message of the thread, went over an assistant message the log
\* already held and appended the new one after it.
C1_Witness ==
  /\ last.op = "process_run" /\ last.status = "completed" /\ last.ret = "rerun"
  /\ \E i, k \in 1..Len(messages) :
       /\ i < k /\ k < Len(messages)
       /\ "id" \in DOMAIN messages[i] /\ messages[i].id # WelcomeId
       /\ "id" \notin DOMAIN messages[k]
       /\ "id" \in DOMAIN messages[Len(messages)]

\* a process_run call that found the run in requires_action and was not cut
\* short by the run expiring under it or by submit_tool_outputs failing
DispatchStep ==
  /\ ProcessRunRequiresAction
  /\ last'.op = "process_run" /\ last'.status = "requires_action"
  /\ last'.fault \notin {"moved", "submit"}

\* C2: a submit_tool_outputs call made for a batch of N tool calls carries
\* exactly N results, one for each call id of the batch; no smaller set of
\* results is ever submitted.
C2_WholeBatchSubmitted ==
  [][submit_count' # submit_count /\ submit_count' > 0 =>
       /\ Len(submitted') = Len(tool_calls)
       /\ \A i \in 1..Len(tool_calls) :
            \E j \in 1..Len(submitted') :
               submitted'[j].tool_call_id = tool_calls[i].id
       /\ \A i, j \in 1..Len(submitted') :
            i # j => submitted'[i].tool_call_id # submitted'[j].tool_call_id]_vars

\* C2 witness: a batch of two tool calls was answered with two results.
C2_Witness ==
  /\ last.op = "process_run" /\ last.status = "requires_action"
  /\ submit_count > 0 /\ Len(submitted) = 2
  /\ submitted[1].tool_call_id # submitted[2].tool_call_id

\* C3 as claimed: send_message called while the run handle is set creates no
\* run, leaves the run handle alone and appends nothing to message_log.
C3_SendRefusedWhileRunActive ==
  [][(SendMessage /\ sends' # sends /\ assistant_manager # Unset
        /\ run_id # None)
       => /\ runs_created' = runs_created
          /\ run_id' = run_id
          /\ messages' = messages]_vars

\* C4 as claimed: once process_run has seen the run completed and cleared the
\* run handle, message_log holds every assistant message of the remote
\* thread, once each and in the thread's order.
C4_AllAssistantMessagesHarvested ==
  (last.op = "process_run" /\ last.status = "completed"
     /\ last.fault = "none" /\ run_id = None)
    => LogAssistantIds(messages) = ThreadAssistantIds(thread)

\* C5 as claimed: a process_run call that saw the run completed leaves the
\* run handle cleared, also when it appended a message.
C5_CompletedClearsHandle ==
  (last.op = "process_run" /\ last.status = "completed") => run_id = None

\* C5 amended: a process_run call that saw the run completed and found no new
\* assistant message (or failed to list them) leaves the run handle cleared;
\* a call that appended a new assistant message stops at st.rerun() with the
\* run handle still set and that message last in message_log.
C5_CompletedClearsHandleUnlessAppended ==
  (last.op = "process_run" /\ last.status = "completed") =>
     /\ last.ret = "False" => run_id = None
     /\ last.ret = "rerun" =>
          /\ run_id # None
          /\ "id" \in DOMAIN messages[Len(messages)]
     /\ last.ret \in {"False", "rerun"}

\* C5 witness: both cases happened in turn: the call before appended, this
\* one found nothing new and cleared the handle.
C5_Witness ==
  /\ last.op = "process_run" /\ last.status = "completed"
  /\ last.ret = "False" /\ last.fault = "none" /\ run_id = None
  /\ "id" \in DOMAIN messages[Len(messages)]
  /\ messages[Len(messages)].id = Len(thread)

\* C6: a process_run call that sees the run failed, cancelled or expired
\* reports an error to the user, clears the run handle, leaves message_log
\* alone and creates no run; the next send_message then starts a new run
\* (unless the network fails it).
C6_RunFailureSurfacedNotRetried ==
  /\ [][ProcessRunFailed =>
          /\ "run_status" \in st_errors'
          /\ run_id' = None
          /\ messages' = messages
          /\ runs_created' = runs_created /\ run_status' = run_status]_vars
  /\ [][(SendMessage /\ last.op = "process_run"
           /\ last.status \in FailureStatuses /\ last'.fault = "none")
          => /\ runs_created' = runs_created + 1
             /\ run_id' = runs_created'
             /\ run_status' = "queued"]_vars

\* C6 witness: a run that was cancelled or expired or failed has been
\* processed; the handle is gone, the error is shown, the log ends with the
\* user's message of that turn.
C6_Witness ==
  /\ last.op = "process_run" /\ last.status \in FailureStatuses
  /\ run_id = None /\ "run_status" \in st_errors
  /\ runs_created > 0 /\ run_status = last.status
  /\ "id" \notin DOMAIN messages[Len(messages)]

\* a tool call that execute_function cannot dispatch: its arguments are not
\* JSON or its function name is not registered
Undispatchable(call) ==
  call.args = "not_json" \/ call.name \notin Registered(variant)

\* C7 as claimed: a tool call with unparseable arguments or an unregistered
\* name gets an {error} payload that is submitted as its result, no UI error
\* is raised and the run handle stays set.  (Stated for the batches in which
\* every call is of that kind, so that no handler runs.)
C7_DispatchFaultsAnsweredInConversation ==
  [][(DispatchStep /\ \A i \in 1..Len(tool_calls) : Undispatchable(tool_calls[i]))
       => /\ run_id' = run_id
          /\ st_errors' = {}
          /\ submit_count' = submit_count + 1
          /\ \A i \in 1..Len(tool_calls) :
               \E j \in 1..Len(submitted') :
                  /\ submitted'[j].tool_call_id = tool_calls[i].id
                  /\ "error" \in submitted'[j].output]_vars

\* C8 as claimed: when a handler of a batch raises, the turn goes on: the
\* whole batch is submitted and the run handle stays set.  (Stated for the
\* batches whose arguments all parse, whatever happens inside the handlers.)
C8_HandlerFailureDoesNotAbortTurn ==
  [][(DispatchStep /\ \A i \in 1..Len(tool_calls) : tool_calls[i].args = "json")
       => /\ run_id' = run_id
          /\ submit_count' = submit_count + 1
          /\ Len(submitted') = Len(tool_calls)]_vars

\* C12: ensure_thread is idempotent: whatever ensure_thread, send_message and
\* process_run calls are made, at most one remote thread is created for the
\* session, and a thread handle that is set never changes; an ensure_thread
\* call on a session that has its thread creates nothing.
C12_EnsureThreadIdempotent ==
  /\ [](threads_created <= 1)
  /\ [][thread_id # None => thread_id' = thread_id]_vars
  /\ [][(EnsureThread /\ thread_id # None)
          => UNCHANGED <<thread_id, threads_created, thread>>]_vars

\* C12 witness: ensure_thread was called again on a session that had
\* already sent a message on its thread, and created nothing.
C12_Witness ==
  /\ last.op = "ensure_thread" /\ last.ret = Unset /\ last.fault = "none"
  /\ thread_id = 1 /\ threads_created = 1 /\ sends > 0 /\ Len(thread) > 0

\* C13: a send_message call that succeeds appends exactly one entry to
\* message_log, a user entry without id, and leaves the earlier entries as
\* they were; it adds the text to the remote thread, creates exactly one run
\* and stores that run's id as the run handle.
C13_SuccessfulSend ==
  [][(SendMessage /\ last'.ret = "sent")
       => /\ Len(messages') = Len(messages) + 1
          /\ SubSeq(messages', 1, Len(messages)) = messages
          /\ messages'[Len(messages')].role = "user"
          /\ "id" \notin DOMAIN messages'[Len(messages')]
          /\ thread' = Append(thread, "user")
          /\ runs_created' = runs_created + 1
          /\ run_id' = runs_created'
          /\ run_status' = "queued"]_vars

\* C13 witness: the second message of a session was sent after the first
\* turn had been answered.
C13_Witness ==
  /\ last.op = "send" /\ last.ret = "sent"
  /\ sends = 2 /\ run_id = runs_created /\ run_status = "queued"
  /\ Len(messages) >= 4 /\ "id" \notin DOMAIN messages[Len(messages)]
  /\ "id" \in DOMAIN messages[Len(messages) - 1]
  /\ thread[Len(thread)] = "user"

\* C14: when the session is driven by the UI script (process the active
\* run, then read the chat input), a run is created only while the run
\* handle is empty, so a run handle that is set is only ever cleared, never
\* replaced by the handle of a new turn.
C14_NewRunOnlyWhenHandleEmpty ==
  /\ [][runs_created' # runs_created => run_id = None]_vars
  /\ [][run_id # None => run_id' \in {run_id, None}]_vars

\* C14 witness: the script has started the second turn of a session: the
\* first run was processed to its end before the chat input was read again.
C14_Witness ==
  /\ script_pc = "top" /\ last.op = "send" /\ last.ret = "sent"
  /\ sends = 2 /\ runs_created = 2 /\ run_id = 2

\* ------------------------------------------------------------------------
\* One provider network call: call_webhook_with_retry / make_api_request
\* ------------------------------------------------------------------------
\* call_webhook_with_retry(webhook_name, data=None, max_retries=3,
\* backoff_factor=0.5); every caller uses the defaults.  Delays are counted
\* in tenths of a unit, so 0.5 is 5.
MaxRetriesDefault == 3
BackoffTenths == 5

WebhookNames == {"get_products_list", "get_product_availability", "create_order"}
\* names and methods the functions are called with; "no_such_webhook" is not
\* a key of WEBHOOK_URLS, "PUT" is neither GET nor POST
WebhookArgs == WebhookNames \cup {"no_such_webhook"}
ApiMethods == {"GET", "POST", "PUT"}

\* An answer of the backend: an HTTP status and whether the body is JSON;
\* status NoResponse stands for a connection failure (no response at all).
NoResponse == 0
HttpStatuses == {200, 400, 404, 500, 502, 503}
Responses ==
  {[status |-> st, json |-> TRUE] : st \in HttpStatuses \cup {NoResponse}}
    \cup {[status |-> 200, json |-> FALSE]}

\* response.raise_for_status() raises HTTPError for 4xx and 5xx
IsHttpError(resp) == resp.status >= 400
IsServerError(resp) == resp.status >= 500 /\ resp.status <= 599
\* the attempt did not return the payload
IsFailure(resp) == resp.status = NoResponse \/ IsHttpError(resp) \/ ~resp.json

\* "if e.response.status_code == 500 and attempt < max_retries - 1"
ShouldRetryAnyServerError(resp, attempt, max_retries) ==
  IsServerError(resp) /\ attempt < max_retries - 1
ShouldRetryWithoutLimit(resp, attempt, max_retries) == resp.status = 500
ShouldRetry(resp, attempt, max_retries) ==
  resp.status = 500 /\ attempt < max_retries - 1

\* "delay = backoff_factor * (2 ** attempt)"
RetryDelayOneAhead(backoff, attempt) == backoff * (2 ^ (attempt + 1))
RetryDelay(backoff, attempt) == backoff * (2 ^ attempt)

RetryStart(fn, arg, key) ==
  /\ r_fn = fn /\ r_arg = arg /\ r_key = key
  /\ r_pc = "start" /\ r_attempt = 0 /\ r_requests = 0 /\ r_delays = <<>>
  /\ r_responses = <<>> /\ r_result = "pending" /\ r_st_error = FALSE

RetryInit ==
  /\ InitSession("webhook", "turns", 0)
  /\ ProviderIdle
  /\ OthersIdle
  /\ \/ \E name \in WebhookArgs : RetryStart("webhook", name, TRUE)
     \/ \E m \in ApiMethods : \E key \in BOOLEAN : RetryStart("api", m, key)

RetryFrame == UNCHANGED <<providerVars, otherVars, dispatched, script_pc, variant, focus, assistant_manager, sessionVars,
                          st_errors, last, remoteVars, sends>>

\* call_webhook_with_retry up to the loop: the name must be a key of
\* WEBHOOK_URLS
WebhookEnter ==
  /\ r_fn = "webhook" /\ r_pc = "start"
  /\ IF r_arg \in WebhookNames
     THEN r_pc' = "request" /\ r_result' = r_result
     ELSE r_pc' = "done" /\ r_result' = "error"
  /\ UNCHANGED <<r_fn, r_arg, r_key, r_attempt, r_requests, r_delays,
                 r_responses, r_st_error>>
  /\ RetryFrame

\* one pass of the loop body: the request and what follows from its answer
WebhookAttempt ==
  \E resp \in Responses :
    /\ r_fn = "webhook" /\ r_pc = "request"
    /\ r_attempt < MaxRetriesDefault
    /\ r_requests' = r_requests + 1
    /\ r_responses' = Append(r_responses, resp)
    /\ IF ~IsFailure(resp)
       THEN \* return response.json()
            /\ r_pc' = "done" /\ r_result' = "payload"
            /\ UNCHANGED r_st_error
       ELSE IF IsHttpError(resp) /\ ShouldRetry(resp, r_attempt, MaxRetriesDefault)
       THEN \* time.sleep(delay); continue
            /\ r_pc' = "sleep"
            /\ UNCHANGED <<r_result, r_st_error>>
       ELSE \* HTTPError that is not retried, a connection failure, or a body
            \* that is not JSON (requests' JSONDecodeError is a
            \* RequestException): st.error and return {"error": str(e)}
            /\ r_pc' = "done" /\ r_result' = "error"
            /\ r_st_error' = TRUE
    /\ UNCHANGED <<r_fn, r_arg, r_key, r_attempt, r_delays>>
    /\ RetryFrame

\* the delay before the next attempt; "for attempt in range(max_retries)":
\* a loop that runs out ends the function with no return statement
WebhookSleep ==
  /\ r_fn = "webhook" /\ r_pc = "sleep"
  /\ r_delays' = Append(r_delays, RetryDelay(BackoffTenths, r_attempt))
  /\ r_attempt' = r_attempt + 1
  /\ IF r_attempt + 1 < MaxRetriesDefault
     THEN r_pc' = "request" /\ r_result' = r_result
     ELSE r_pc' = "done" /\ r_result' = "None"
  /\ UNCHANGED <<r_fn, r_arg, r_key, r_requests, r_responses, r_st_error>>
  /\ RetryFrame

\* make_api_request(endpoint, method): one request, no retry; every failure
\* returns None, a failed request also calls st.error
ApiRequest ==
  \E resp \in Responses :
    /\ r_fn = "api" /\ r_pc = "start"
    /\ r_pc' = "done"
    /\ IF ~r_key \/ r_arg \notin {"GET", "POST"}
       THEN /\ r_result' = "None"
            /\ UNCHANGED <<r_requests, r_responses, r_st_error>>
       ELSE /\ r_requests' = r_requests + 1
            /\ r_responses' = Append(r_responses, resp)
            /\ r_result' = IF IsFailure(resp) THEN "None" ELSE "payload"
            /\ r_st_error' = IsFailure(resp)
    /\ UNCHANGED <<r_fn, r_arg, r_key, r_attempt, r_delays>>
    /\ RetryFrame

RetryNext ==
  \/ WebhookEnter
  \/ WebhookAttempt
  \/ WebhookSleep
  \/ ApiRequest

SpecRetry == RetryInit /\ [][RetryNext]_vars

\* make_api_request returns before any request: no key, or a method that
\* is neither GET nor POST
ApiRequestRefused == ~r_key \/ r_arg \notin {"GET", "POST"}

\* The steps the function takes by itself are taken: entering the loop, the
\* sleep, an early return.  A request is "requests.post(url, json=data)" /
\* "requests.get(url, params=params)", with no timeout argument: requests
\* then waits for the answer without limit, so that a request ends only
\* when the backend answers or the connection fails.
LocalFairness ==
  /\ WF_vars(WebhookEnter)
  /\ WF_vars(WebhookSleep)
  /\ WF_vars(ApiRequest /\ ApiRequestRefused)

\* a backend that answers every request, or lets the connection fail
SpecRetryAnswered ==
  RetryInit /\ [][RetryNext]_vars /\ LocalFairness
    /\ WF_vars(WebhookAttempt) /\ WF_vars(ApiRequest)

\* a backend that may leave a request without any answer
SpecRetryUnanswered == RetryInit /\ [][RetryNext]_vars /\ LocalFairness

\* ------------------------------------------------------------------------
\* Properties of a provider network call
\* ------------------------------------------------------------------------
Status500 == [status |-> 500, json |-> TRUE]
StatusOk == [status |-> 200, json |-> TRUE]

RetryDone == r_pc = "done" /\ r_fn = "webhook" /\ r_arg \in WebhookNames

\* C9: with the default policy, a call whose first two requests are answered
\* 500 makes exactly 3 requests and 2 delays, of 0.5 and then 1.0 units; it
\* returns the payload when the third answer is a success and an {error}
\* value when the third answer is 500 again, and raises nothing.
C9_TwoRetriesThenResult ==
  (RetryDone /\ Len(r_responses) >= 2
     /\ r_responses[1] = Status500 /\ r_responses[2] = Status500)
    => /\ Len(r_responses) = 3 /\ r_requests = 3
       /\ r_delays = <<5, 10>>
       /\ r_responses[3] = StatusOk => r_result = "payload" /\ ~r_st_error
       /\ r_responses[3] = Status500 => r_result = "error"
       /\ r_result \in {"payload", "error"}

\* C9 witness: 500, 500, success has returned the payload.
C9_Witness ==
  /\ RetryDone /\ r_responses = <<Status500, Status500, StatusOk>>
  /\ r_result = "payload" /\ r_requests = 3

\* the k-th attempt was followed by another one
Retried(k) == k < Len(r_responses)

\* C10 as claimed: a failed attempt is followed by another attempt exactly
\* when the failure was a response with a status from 500 to 599 and fewer
\* than 3 attempts had been made.
C10_RetryIffServerError ==
  r_pc = "done" =>
    \A k \in 1..Len(r_responses) :
      IsFailure(r_responses[k]) =>
        (Retried(k) <=> (IsServerError(r_responses[k]) /\ k < MaxRetriesDefault))

\* C10 amended: in call_webhook_with_retry a failed attempt is followed by
\* another attempt exactly when the failure was a response with status 500
\* and fewer than 3 attempts had been made; every other failure (another 5xx
\* status, a 4xx status, a body that is not JSON, a connection failure) ends
\* the call at once with {error} and no further delay.  make_api_request
\* never makes a second attempt: every failure ends it with None.
C10_RetryIffStatus500 ==
  r_pc = "done" =>
    /\ \A k \in 1..Len(r_responses) :
         IsFailure(r_responses[k]) =>
           (Retried(k) <=> (/\ r_fn = "webhook"
                            /\ r_responses[k].status = 500
                            /\ k < MaxRetriesDefault))
    /\ Len(r_responses) > 0 =>
         /\ Len(r_delays) = Len(r_responses) - 1
         /\ IsFailure(r_responses[Len(r_responses)]) =>
              r_result = (IF r_fn = "webhook" THEN "error" ELSE "None")

\* C10 witness: a 500 was retried after 0.5 units, the 503 that followed
\* ended the call with {error} and no second delay.
C10_Witness ==
  /\ RetryDone /\ Len(r_responses) = 2
  /\ r_responses[1].status = 500 /\ r_responses[2].status = 503
  /\ r_delays = <<5>> /\ r_result = "error"

\* ------------------------------------------------------------------------
\* One provider operation: the handlers behind execute_function
\* ------------------------------------------------------------------------
\* What the backend answered to the handler's request, as the handler sees
\* it after make_api_request / call_webhook_with_retry:
\*   "none"           the request failed (None, or {"error": ...})
\*   "missing_key"    a body without the key the handler looks for first
\*   "missing_field"  that key is there, a field expected under it is absent
\*   "null_field"     that key is there, a field expected under it is null
\*   "complete"       every expected field is there
ResponseShapes ==
  {"none", "missing_key", "missing_field", "null_field", "complete"}

\* what happens inside the handler's body for a response of that shape
BodyOutcome(v, name, shape) ==
  IF shape = "complete" THEN "success"
  ELSE IF shape = "none" THEN "failure"
  ELSE IF v = "app"
  THEN CASE name = "list_product_groups" ->
              \* group["id"], response["meta"]["total_count"]
              IF shape = "missing_key" THEN "failure" ELSE "exception"
         [] name = "get_product_group" ->
              \* product_group["id"], product["name"], item["identifier"]
              IF shape = "missing_key" THEN "failure" ELSE "exception"
         [] name = "check_availability" ->
              \* "if response:" and response.get(..., 0) only
              "success"
         [] name = "get_product_pricing" ->
              \* tile.get(...); float(None) raises
              IF shape = "missing_key" THEN "failure"
              ELSE IF shape = "missing_field" THEN "success" ELSE "exception"
         [] name = "create_customer" ->
              \* response["customer"]["id"]
              IF shape = "missing_key" THEN "failure" ELSE "exception"
         [] name \in {"create_order", "book_order"} ->
              \* response["order"]["id"], response["order"]["status"]
              IF shape = "missing_key" THEN "failure" ELSE "exception"
         [] OTHER -> "failure"
  ELSE CASE name = "list_product_groups" ->
              \* len(response["product_groups"])
              IF shape = "missing_key" THEN "failure"
              ELSE IF shape = "missing_field" THEN "success" ELSE "exception"
         [] name = "get_product_details" ->
              \* "error" not in response; response.get(...);
              \* float(response.get("productBasePrice", 0))
              IF shape = "null_field" THEN "exception" ELSE "success"
         [] name = "create_reservation" ->
              \* "error" not in response; response.get("result", ...)
              "success"
         [] OTHER -> "failure"

\* one call of a handler against a backend that answers with that shape
ProviderCall(v, name, shape) == CallHandler(v, name, BodyOutcome(v, name, shape))

ProviderFrame ==
  UNCHANGED <<retryVars, otherVars, dispatched, script_pc, variant, focus, assistant_manager, sessionVars,
              st_errors, last, remoteVars, sends>>

\* Each behaviour of SpecProvider is one call of one handler, from the idle
\* state: a handler keeps nothing between calls.
\* a handler is called by name, the backend answers in some shape
CallProvider ==
  /\ p_op = "none"
  /\ \E name \in Registered(variant) : \E shape \in ResponseShapes :
       /\ p_op' = "handler"
       /\ p_in' = [name |-> name, shape |-> shape]
       /\ p_out' = ProviderCall(variant, name, shape)
       /\ ProviderFrame

\* the tools create_assistant configures: function name -> the argument
\* names its "parameters" schema declares
ConfiguredTools ==
  [list_product_groups |-> {},
   get_product_details |-> {"product_group_id", "from_date", "to_date"},
   create_reservation |->
     {"customer_info", "product_id", "start_date", "end_date", "quantity"}]
ConfiguredNames == DOMAIN ConfiguredTools

\* the names a tool call may carry: the configured ones, the names of the
\* other front-end's dispatch, and a name nobody knows
DispatchNames ==
  ConfiguredNames \cup Registered("app") \cup {"no_such_function"}

\* the handler the if/elif chain of execute_function calls for a name
NoHandler == "none"
Dispatch(v, name, args) ==
  IF args = "json" /\ name \in Registered(v) THEN name ELSE NoHandler

\* the argument names execute_function reads with args.get for that handler
DispatchArgs(v, name) ==
  CASE name = "list_product_groups" -> {}
    [] name = "get_product_group" -> {"product_group_id"}
    [] name = "check_availability" -> {"product_id", "from_date", "to_date"}
    [] name = "get_product_pricing" -> {"product_id"}
    [] name = "create_customer" ->
         {"name", "email", "address1", "address2", "city", "zipcode",
          "country", "phone"}
    [] name = "create_order" -> {"customer_id", "start_date", "end_date"}
    [] name = "book_order" -> {"order_id", "product_id", "quantity"}
    [] name = "get_product_details" ->
         {"product_group_id", "from_date", "to_date"}
    [] name = "create_reservation" ->
         {"customer_info", "product_id", "start_date", "end_date", "quantity"}
    [] OTHER -> {}

\* the result of execute_function, with the handler it called and the
\* argument names it read for the call
ExecuteFunctionTraced(v, name, args, h) ==
  [raised |-> ExecuteFunction(v, name, args, h).raised,
   output |-> ExecuteFunction(v, name, args, h).output,
   handler |-> Dispatch(v, name, args),
   arg_names |-> DispatchArgs(v, Dispatch(v, name, args))]

\* execute_function is called with a function name and an arguments text,
\* as the loop over the tool calls does; the backend answers in some shape
ExecuteFunctionCall ==
  /\ p_op = "none"
  /\ \E name \in DispatchNames :
     \E args \in ArgKinds : \E shape \in ResponseShapes :
       /\ p_op' = "execute_function"
       /\ p_in' = [name |-> name, args |-> args, shape |-> shape]
       /\ p_out' = ExecuteFunctionTraced(variant, name, args,
                                         BodyOutcome(variant, name, shape))
       /\ ProviderFrame

\* ---- dates ----
\* A date argument is the text "YYYY-MM-DD", held as <<year, month, day>>, or
\* None (the argument was left out), held as <<>>.
NoDate == <<>>
DateInputs ==
  { <<2025, 6, 1>>, <<2025, 6, 30>>, <<2025, 7, 1>>, <<2025, 7, 3>>,
    <<2024, 2, 28>>, <<2024, 3, 1>>, <<2025, 2, 30>>, NoDate }

IsLeap(y) == (y % 4 = 0 /\ y % 100 # 0) \/ y % 400 = 0
DaysInMonth(y, m) ==
  CASE m \in {1, 3, 5, 7, 8, 10, 12} -> 31
    [] m \in {4, 6, 9, 11} -> 30
    [] OTHER -> IF IsLeap(y) THEN 29 ELSE 28

\* isinstance(date, str)
IsStr(date) == date # NoDate
\* datetime.datetime.strptime(date, "%Y-%m-%d") returns: the text names a day
\* of the calendar (ValueError otherwise, TypeError for None)
Parses(date) ==
  /\ IsStr(date)
  /\ date[1] \in 1..9999 /\ date[2] \in 1..12
  /\ date[3] \in 1..DaysInMonth(date[1], date[2])

RECURSIVE DaysBeforeMonth(_, _)
DaysBeforeMonth(y, m) ==
  IF m = 1 THEN 0 ELSE DaysBeforeMonth(y, m - 1) + DaysInMonth(y, m - 1)
\* the day number of a parsed date (date.toordinal())
ToOrdinal(date) ==
  LET y == date[1] - 1
  IN y * 365 + y \div 4 - y \div 100 + y \div 400
     + DaysBeforeMonth(date[1], date[2]) + date[3]

\* rental_days = (to_date_obj - from_date_obj).days; "if rental_days == 0:
\* rental_days = 1"
RentalDaysRaw(from, to) == ToOrdinal(to) - ToOrdinal(from)
RentalDaysInclusive(from, to) == ToOrdinal(to) - ToOrdinal(from) + 1
RentalDays(from, to) ==
  LET days == ToOrdinal(to) - ToOrdinal(from)
  IN IF days = 0 THEN 1 ELSE days

\* strptime raises ValueError for one of the two dates: a handler that parses
\* its dates first leaves through its except clause before it sends anything
DateRejected(from, to) ==
  (IsStr(from) /\ ~Parses(from)) \/ (IsStr(to) /\ ~Parses(to))

\* ---- get_product_details (webhook_streamlit_app.py) ----
\* the webhook calls get_product_details makes, in order
GetProductDetailsRequests(from, to) ==
  IF DateRejected(from, to) THEN <<>> ELSE <<"get_product_availability">>

\* response.get("productBasePrice", 0): the key is absent, null, or a number
PriceValues == {0, 25, 100}
BasePrices ==
  {[has |-> "absent", value |-> 0], [has |-> "null", value |-> 0]}
    \cup {[has |-> "value", value |-> v] : v \in PriceValues}
\* what call_webhook_with_retry returned: {"error": ...}, an empty body, or
\* a body with the product's fields
DetailResponses ==
  {[kind |-> "error", base |-> [has |-> "absent", value |-> 0]],
   [kind |-> "empty", base |-> [has |-> "absent", value |-> 0]]}
    \cup {[kind |-> "ok", base |-> b] : b \in BasePrices}

ErrorPayload(fields) == [kind |-> "error", fields |-> fields]

\* get_product_details(product_group_id, from_date, to_date) against a
\* webhook that answers resp
GetProductDetailsResult(from, to, resp) ==
  IF (IsStr(from) /\ ~Parses(from)) \/ (IsStr(to) /\ ~Parses(to))
  THEN ErrorPayload({"error"})                      \* strptime: ValueError
  ELSE IF resp.kind # "ok"
  THEN ErrorPayload({"error", "response"})
  ELSE IF ~IsStr(from) \/ ~IsStr(to)
  THEN ErrorPayload({"error"})                      \* strptime(None): TypeError
  ELSE IF resp.base.has = "null"
  THEN ErrorPayload({"error"})                      \* float(None): TypeError
  ELSE [kind |-> "success",
        fields |-> {"product_id", "name", "availability", "pricing"},
        base_price |-> resp.base.value,
        rental_days |-> RentalDays(from, to),
        total_price |-> resp.base.value * RentalDays(from, to)]

GetProductDetails ==
  /\ p_op = "none"
  /\ variant = "webhook"
  /\ \E from \in DateInputs : \E to \in DateInputs : \E resp \in DetailResponses :
       /\ p_op' = "get_product_details"
       /\ p_in' = [from_date |-> from, to_date |-> to, response |-> resp]
       /\ p_out' = GetProductDetailsResult(from, to, resp)
                     @@ [requests |-> GetProductDetailsRequests(from, to)]
       /\ ProviderFrame

\* ---- group or product: get_product_group and the handlers that probe it
\* (App.py) ----
\* products a group of the backend may hold
MaxGroupProducts == 2
GroupIds == {"g1"}
ProductIds == {"p1", "p2"}
\* the argument was left out or is empty ("if product_id:" is false)
NoId == ""
IdInputs == GroupIds \cup ProductIds \cup {"x", NoId}
ProductLists == UNION {[1..n -> ProductIds] : n \in 0..MaxGroupProducts}
\* the backend's product groups: the products of each, in the backend's order
Catalogs == [GroupIds -> ProductLists]
\* the request product_groups/<id> is answered from the catalog, or fails
Lookups == {"answered", "failed"}

\* get_product_group(id): {"error": ...} unless the backend knows the group
GetProductGroup(catalog, id, lookup) ==
  IF lookup = "answered" /\ id \in DOMAIN catalog
  THEN [error |-> FALSE, products |-> catalog[id]]
  ELSE [error |-> TRUE, products |-> <<>>]

\* product_group["products"][0]["id"]
LastProduct(products) == products[Len(products)]
FirstProduct(products) == products[1]

\* 'if product_group and "error" not in product_group and "products" in
\* product_group and len(product_group["products"]) > 0'
ProbeGroup(catalog, id, lookup) ==
  LET g == GetProductGroup(catalog, id, lookup)
  IN IF ~g.error /\ Len(g.products) > 0 THEN FirstProduct(g.products) ELSE id

\* the id each handler puts into its request
ResolveCheckAvailability(catalog, id, lookup) ==
  IF id # NoId THEN ProbeGroup(catalog, id, lookup) ELSE id
ResolveGetProductPricing(catalog, id, lookup) == ProbeGroup(catalog, id, lookup)
ResolveBookOrder(catalog, id, lookup) == ProbeGroup(catalog, id, lookup)

\* ---- check_availability (App.py) ----
AvailabilityDates == {<<2025, 6, 1>>, <<2025, 7, 3>>, <<2025, 2, 30>>, NoDate}
\* from_date_obj.strftime("%d-%m-%Y"): day, month, year; a date that is not
\* a text is passed on as it is
WireDate(date) == IF IsStr(date) THEN <<date[3], date[2], date[1]>> ELSE date

\* the backend requests check_availability makes, in order: the probe of
\* get_product_group comes before the dates are parsed
CheckAvailabilityRequests(id, from, to) ==
  (IF id # NoId THEN <<"product_groups">> ELSE <<>>)
    \o (IF DateRejected(from, to) THEN <<>> ELSE <<"availability">>)

\* check_availability(product_id, from_date, to_date); answered: the
\* availability request returned a body ("if response:")
CheckAvailabilityResult(catalog, id, lookup, from, to, answered) ==
  IF (IsStr(from) /\ ~Parses(from)) \/ (IsStr(to) /\ ~Parses(to))
  THEN ErrorPayload({"error"})                      \* strptime: ValueError
  ELSE IF ~answered
  THEN ErrorPayload({"error"})
  ELSE [kind |-> "success",
        fields |-> {"available", "stock_count", "needed", "planned"},
        used_id |-> ResolveCheckAvailability(catalog, id, lookup),
        from_wire |-> WireDate(from),
        till_wire |-> WireDate(to)]

CheckAvailability ==
  /\ p_op = "none"
  /\ variant = "app"
  /\ \E catalog \in Catalogs : \E id \in IdInputs : \E lookup \in Lookups :
     \E from \in AvailabilityDates : \E to \in AvailabilityDates :
     \E answered \in BOOLEAN :
       /\ p_op' = "check_availability"
       /\ p_in' = [catalog |-> catalog, id |-> id, lookup |-> lookup,
                   from_date |-> from, to_date |-> to]
       /\ p_out' = CheckAvailabilityResult(catalog, id, lookup, from, to, answered)
                     @@ [requests |-> CheckAvailabilityRequests(id, from, to)]
       /\ ProviderFrame

\* ---- get_product_pricing (App.py) ----
\* tiles the price structure of a product may hold
MaxTiles == 2
\* tile.get("price_in_cents", 0): the key is absent, null, or a number
CentValues == {0, 1999, 2500}
TileCents ==
  {[has |-> "absent", value |-> 0], [has |-> "null", value |-> 0]}
    \cup {[has |-> "value", value |-> c] : c \in CentValues}
TileLists == UNION {[1..n -> TileCents] : n \in 0..MaxTiles}

\* float(cents) / 100, as whole units and hundredths
PriceOf(cents) == [units |-> cents \div 100, hundredths |-> cents % 100]

\* one entry of the "pricing" list
PricingEntry(tile) ==
  [price_in_cents |-> tile,
   price |-> PriceOf(IF tile.has = "value" THEN tile.value ELSE 0)]

\* get_product_pricing(product_id); answered: the prices request returned a
\* body with "price_structures"
GetProductPricingResult(catalog, id, lookup, tiles, answered) ==
  IF ~answered
  THEN ErrorPayload({"error"})
  ELSE IF \E i \in 1..Len(tiles) : tiles[i].has = "null"
  THEN ErrorPayload({"error"})                      \* float(None): TypeError
  ELSE [kind |-> "success",
        fields |-> {"pricing"},
        used_id |-> ResolveGetProductPricing(catalog, id, lookup),
        pricing |-> [i \in 1..Len(tiles) |-> PricingEntry(tiles[i])]]

GetProductPricing ==
  /\ p_op = "none"
  /\ variant = "app"
  /\ \E catalog \in Catalogs : \E id \in IdInputs : \E lookup \in Lookups :
     \E tiles \in TileLists : \E answered \in BOOLEAN :
       /\ p_op' = "get_product_pricing"
       /\ p_in' = [catalog |-> catalog, id |-> id, lookup |-> lookup,
                   tiles |-> tiles, answered |-> answered]
       /\ p_out' = GetProductPricingResult(catalog, id, lookup, tiles, answered)
       /\ ProviderFrame

\* ---- book_order (App.py) ----
\* book_order(order_id, product_id, quantity); answered: the book request
\* returned a body with "order"
BookOrderResult(catalog, id, lookup, answered) ==
  IF ~answered
  THEN ErrorPayload({"error"})
  ELSE [kind |-> "success",
        fields |-> {"order_id", "status", "grand_total", "payment_status"},
        used_id |-> ResolveBookOrder(catalog, id, lookup)]

BookOrder ==
  /\ p_op = "none"
  /\ variant = "app"
  /\ \E catalog \in Catalogs : \E id \in IdInputs : \E lookup \in Lookups :
     \E answered \in BOOLEAN :
       /\ p_op' = "book_order"
       /\ p_in' = [catalog |-> catalog, id |-> id, lookup |-> lookup,
                   answered |-> answered]
       /\ p_out' = BookOrderResult(catalog, id, lookup, answered)
       /\ ProviderFrame

\* ---- phone numbers: create_reservation (webhook_streamlit_app.py) and
\* create_customer (App.py) ----
\* characters of a phone argument
MaxPhoneLen == 3
PhoneChars == {"+", "-", " ", "(", ")", ".", "1", "5"}
Phones == UNION {[1..n -> PhoneChars] : n \in 0..MaxPhoneLen}

\* phone.replace("-", "")
RECURSIVE RemoveHyphens(_)
RemoveHyphens(s) ==
  IF s = <<>> THEN <<>>
  ELSE IF Head(s) = "-" THEN RemoveHyphens(Tail(s))
       ELSE <<Head(s)>> \o RemoveHyphens(Tail(s))

\* 'if phone and not phone.startswith("+"): phone = "+1" + phone.replace("-", "")'
FormatPhone(phone) ==
  IF phone # <<>> /\ Head(phone) # "+"
  THEN <<"+", "1">> \o RemoveHyphens(phone)
  ELSE phone

ReservationDates == {<<2025, 7, 1>>, <<2025, 2, 30>>, NoDate}

\* the quantity argument of the tool call: left out (<<>>) or a number
QuantityInputs == {<<>>, <<1>>, <<2>>}
\* args.get("quantity", 1)
ArgQuantity(q) == IF q = <<>> THEN 1 ELSE q[1]

\* start_date_obj.strftime("%Y-%m-%dT00:00:00") and
\* to_date_obj.strftime("%Y-%m-%dT23:59:59"); a date that is not a text is
\* passed on as it is
IsoDate(date, time) == IF IsStr(date) THEN <<date, time>> ELSE date

\* data["args"] of the create_order webhook request
ReservationRequest(phone, start, end, quantity) ==
  [client_name |-> "name", client_email |-> "email",
   client_phone |-> FormatPhone(phone), product_id |-> "product_id",
   from_date |-> IsoDate(start, "00:00:00"),
   till_date |-> IsoDate(end, "23:59:59")]

\* the webhook calls create_reservation makes, in order
CreateReservationRequests(start, end) ==
  IF DateRejected(start, end) THEN <<>> ELSE <<"create_order">>

\* create_reservation(customer_info, product_id, start_date, end_date,
\* quantity); answered: the webhook returned a body without "error".  The
\* result carries the request when one was made, and its client_phone.
CreateReservationResult(phone, start, end, quantity, answered) ==
  IF (IsStr(start) /\ ~Parses(start)) \/ (IsStr(end) /\ ~Parses(end))
  THEN ErrorPayload({"error"})                      \* strptime: ValueError
  ELSE IF ~answered
  THEN [kind |-> "error", fields |-> {"error", "response"},
        request_phone |-> FormatPhone(phone),
        request |-> ReservationRequest(phone, start, end, quantity)]
  ELSE [kind |-> "success", fields |-> {"success", "message"},
        request_phone |-> FormatPhone(phone),
        request |-> ReservationRequest(phone, start, end, quantity)]

CreateReservation ==
  /\ p_op = "none"
  /\ variant = "webhook"
  /\ \E phone \in Phones : \E start \in ReservationDates :
     \E end \in ReservationDates : \E quantity \in QuantityInputs :
     \E answered \in BOOLEAN :
       /\ p_op' = "create_reservation"
       /\ p_in' = [phone |-> phone, start_date |-> start, end_date |-> end,
                   quantity |-> quantity]
       /\ p_out' = CreateReservationResult(phone, start, end,
                                           ArgQuantity(quantity), answered)
                     @@ [requests |-> CreateReservationRequests(start, end)]
       /\ ProviderFrame

\* create_customer(name, email, address1, address2, city, zipcode, country,
\* phone): the phone goes into the request as it was given; answered: the
\* backend returned a complete "customer"
CreateCustomerResult(phone, answered) ==
  IF answered
  THEN [kind |-> "success", fields |-> {"customer_id", "name", "email"},
        request_phone |-> phone]
  ELSE [kind |-> "error", fields |-> {"error"}, request_phone |-> phone]

CreateCustomer ==
  /\ p_op = "none"
  /\ variant = "app"
  /\ \E phone \in Phones : \E answered \in BOOLEAN :
       /\ p_op' = "create_customer"
       /\ p_in' = [phone |-> phone]
       /\ p_out' = CreateCustomerResult(phone, answered)
       /\ ProviderFrame

\* ---- create_order (App.py) ----
\* the backend requests create_order makes, in order
CreateOrderRequests(start, end) ==
  IF DateRejected(start, end) THEN <<>> ELSE <<"orders">>

\* create_order(customer_id, start_date, end_date); answered: the backend
\* returned a complete "order"
CreateOrderResult(start, end, answered) ==
  IF DateRejected(start, end)
  THEN ErrorPayload({"error"})                      \* strptime: ValueError
  ELSE IF ~answered
  THEN ErrorPayload({"error"})
  ELSE [kind |-> "success",
        fields |-> {"order_id", "status", "starts_at", "stops_at"}]

CreateOrder ==
  /\ p_op = "none"
  /\ variant = "app"
  /\ \E start \in ReservationDates : \E end \in ReservationDates :
     \E answered \in BOOLEAN :
       /\ p_op' = "create_order"
       /\ p_in' = [start_date |-> start, end_date |-> end]
       /\ p_out' = CreateOrderResult(start, end, answered)
                     @@ [requests |-> CreateOrderRequests(start, end)]
       /\ ProviderFrame

ProviderInit ==
  /\ \E v \in Variants : InitSession(v, "turns", 0)
  /\ RetryIdle
  /\ ProviderIdle
  /\ OthersIdle

ProviderNext ==
  \/ CallProvider
  \/ ExecuteFunctionCall
  \/ GetProductDetails
  \/ CheckAvailability
  \/ GetProductPricing
  \/ BookOrder
  \/ CreateReservation
  \/ CreateCustomer
  \/ CreateOrder

SpecProvider == ProviderInit /\ [][ProviderNext]_vars

\* ------------------------------------------------------------------------
\* Properties of a provider operation
\* ------------------------------------------------------------------------
\* C15 as claimed: for a range that starts and ends on the same day, the
\* result of get_product_details and of check_availability reports
\* rental_days = 1, never 0, and total_price = base_price.
C15_SameDayIsOneDay ==
  (/\ p_op \in {"get_product_details", "check_availability"}
   /\ p_out.kind = "success"
   /\ Parses(p_in.from_date) /\ p_in.from_date = p_in.to_date)
    => /\ "rental_days" \in DOMAIN p_out
       /\ p_out.rental_days = 1
       /\ p_out.total_price = p_out.base_price

\* C15 amended: for a range that starts and ends on the same day, a
\* successful get_product_details result has rental_days = 1 and total_price
\* = base_price (0 when the backend names no base price); a successful
\* check_availability result holds available, stock_count, needed and
\* planned only, no rental_days and no total_price, and its request carries
\* the same day as "from" and "till".
C15_SameDayIsOneDayInDetails ==
  (p_op \in {"get_product_details", "check_availability"}
     /\ p_out.kind = "success"
     /\ Parses(p_in.from_date) /\ p_in.from_date = p_in.to_date)
    => IF p_op = "get_product_details"
       THEN /\ p_out.rental_days = 1
            /\ p_out.total_price = p_out.base_price
            /\ p_out.base_price =
                 (IF p_in.response.base.has = "value"
                  THEN p_in.response.base.value ELSE 0)
       ELSE /\ DOMAIN p_out \cap {"rental_days", "total_price"} = {}
            /\ p_out.fields = {"available", "stock_count", "needed", "planned"}
            /\ p_out.from_wire = p_out.till_wire

\* C15 witness: get_product_details for 2025-06-01 to 2025-06-01 at a base
\* price of 25 has answered one day and a total of 25.
C15_Witness ==
  /\ p_op = "get_product_details" /\ p_out.kind = "success"
  /\ p_in.from_date = <<2025, 6, 1>> /\ p_in.to_date = <<2025, 6, 1>>
  /\ p_out.rental_days = 1 /\ p_out.base_price = 25 /\ p_out.total_price = 25

\* the calendar walked month by month: the first day of the month after a
\* date, and the number of days from one date to a later one
MonthAfter(date) ==
  IF date[2] < 12 THEN <<date[1], date[2] + 1, 1>> ELSE <<date[1] + 1, 1, 1>>
Earlier(a, b) ==
  \/ a[1] < b[1]
  \/ a[1] = b[1] /\ a[2] < b[2]
  \/ a[1] = b[1] /\ a[2] = b[2] /\ a[3] < b[3]
RECURSIVE DaysWalked(_, _)
DaysWalked(a, b) ==
  IF a[1] = b[1] /\ a[2] = b[2] THEN b[3] - a[3]
  ELSE DaysInMonth(a[1], a[2]) - a[3] + 1 + DaysWalked(MonthAfter(a), b)

\* C16: for a range that ends d >= 1 days after it starts, a successful
\* get_product_details result has rental_days = d and total_price =
\* base_price * d; 2025-07-01 to 2025-07-03 gives 2 days and twice the base
\* price.
C16_DaysAndTotal ==
  (/\ p_op = "get_product_details" /\ p_out.kind = "success"
   /\ Earlier(p_in.from_date, p_in.to_date))
    => /\ p_out.rental_days = DaysWalked(p_in.from_date, p_in.to_date)
       /\ p_out.total_price = p_out.base_price * p_out.rental_days
       /\ (p_in.from_date = <<2025, 7, 1>> /\ p_in.to_date = <<2025, 7, 3>>)
            => p_out.rental_days = 2 /\ p_out.total_price = 2 * p_out.base_price

\* C16 witness: 2025-07-01 to 2025-07-03 at a base price of 100 has answered
\* 2 days and a total of 200.
C16_Witness ==
  /\ p_op = "get_product_details" /\ p_out.kind = "success"
  /\ p_in.from_date = <<2025, 7, 1>> /\ p_in.to_date = <<2025, 7, 3>>
  /\ p_out.rental_days = 2 /\ p_out.base_price = 100 /\ p_out.total_price = 200

\* C17: on the same backend data check_availability, get_product_pricing
\* and book_order turn an identifier into the same product id: the first
\* product of the group when the id names a group that has products, the id
\* itself otherwise; and the id they arrive at is turned into itself.
C17_SameProductEverywhere ==
  (p_op \in {"check_availability", "get_product_pricing", "book_order"}
     /\ p_in.lookup = "answered")
    => LET c == p_in.catalog
           id == p_in.id
           r == ResolveCheckAvailability(c, id, "answered")
       IN /\ ResolveGetProductPricing(c, id, "answered") = r
          /\ ResolveBookOrder(c, id, "answered") = r
          /\ r = (IF id \in DOMAIN c /\ c[id] # <<>> THEN c[id][1] ELSE id)
          /\ ResolveCheckAvailability(c, r, "answered") = r
          /\ ResolveGetProductPricing(c, r, "answered") = r
          /\ ResolveBookOrder(c, r, "answered") = r
          /\ p_out.kind = "success" => p_out.used_id = r

\* C17 witness: book_order was given a group id and booked the first of the
\* group's two products.
C17_Witness ==
  /\ p_op = "book_order" /\ p_out.kind = "success"
  /\ p_in.id = "g1" /\ p_in.lookup = "answered"
  /\ p_in.catalog["g1"] = <<"p2", "p1">>
  /\ p_out.used_id = "p2"

\* C19 as claimed: get_product_pricing returns, for every tile of the
\* backend's answer, price = price_in_cents / 100 (2500 gives 25); a tile
\* whose price_in_cents is absent or null leaves the prices of the other
\* tiles as they are.
C19_PriceIsCentsOverHundred ==
  (p_op = "get_product_pricing" /\ p_in.answered)
    => /\ p_out.kind = "success"
       /\ Len(p_out.pricing) = Len(p_in.tiles)
       /\ \A i \in 1..Len(p_in.tiles) :
            p_in.tiles[i].has = "value" =>
              /\ 100 * p_out.pricing[i].price.units
                   + p_out.pricing[i].price.hundredths = p_in.tiles[i].value
              /\ p_out.pricing[i].price.hundredths \in 0..99
              /\ p_in.tiles[i].value = 2500 =>
                   p_out.pricing[i].price = [units |-> 25, hundredths |-> 0]

\* a phone number with every hyphen, space, parenthesis and dot taken out
RECURSIVE StripSeparators(_)
StripSeparators(s) ==
  IF s = <<>> THEN <<>>
  ELSE IF Head(s) \in {"-", " ", "(", ")", "."}
       THEN StripSeparators(Tail(s))
       ELSE <<Head(s)>> \o StripSeparators(Tail(s))

\* C20 as claimed: a phone number that does not start with "+" goes to the
\* backend with the country code in front and every separator removed, a
\* number that starts with "+" goes unchanged, and formatting a formatted
\* number changes nothing.
C20_PhoneNormalized ==
  (/\ p_op \in {"create_reservation", "create_customer"}
   /\ "request_phone" \in DOMAIN p_out
   /\ p_in.phone # <<>>)
    => /\ Head(p_in.phone) = "+" => p_out.request_phone = p_in.phone
       /\ Head(p_in.phone) # "+" =>
            p_out.request_phone = <<"+", "1">> \o StripSeparators(p_in.phone)
       /\ FormatPhone(FormatPhone(p_in.phone)) = FormatPhone(p_in.phone)

\* C18 as claimed: the output execute_function hands back for a tool call,
\* which is what gets submitted, holds the success fields of the operation or
\* the single field error and nothing else, never both kinds, and is never
\* empty.
C18_SuccessOrSingleError ==
  (p_op = "execute_function" /\ ~p_out.raised)
    => /\ p_out.output # {}
       /\ \/ p_out.output = SuccessFields(variant, p_in.name)
          \/ p_out.output = {"error"}

\* C18 amended: the output holds the success fields of the operation, or the
\* field error: alone, or, from a handler of webhook_streamlit_app.py whose
\* backend call failed, together with the field response (the backend's
\* answer); it never holds error beside a success field and is never empty.
C18_SuccessOrErrorWithResponse ==
  (p_op = "execute_function" /\ ~p_out.raised)
    => /\ p_out.output # {}
       /\ \/ p_out.output = SuccessFields(variant, p_in.name)
          \/ p_out.output = {"error"}
          \/ /\ p_out.output = {"error", "response"}
             /\ variant = "webhook" /\ p_in.name \in Registered("webhook")
             /\ p_in.args = "json"
             /\ BodyOutcome(variant, p_in.name, p_in.shape) = "failure"
       /\ "error" \in p_out.output
            => p_out.output \cap SuccessFields(variant, p_in.name) = {}

\* C18 witness: get_product_details of the webhook front-end, its webhook
\* call failed, has returned error and response.
C18_Witness ==
  /\ p_op = "execute_function" /\ variant = "webhook"
  /\ p_in.name = "get_product_details" /\ p_in.shape = "none"
  /\ ~p_out.raised /\ p_out.output = {"error", "response"}

\* C11 as claimed: whatever the backend answers, a handler returns its
\* success payload or a payload with an error field; no exception leaves it.
C11_ProviderNeverRaises ==
  p_op = "handler" =>
    /\ ~p_out.raised
    /\ \/ p_out.output = SuccessFields(variant, p_in.name)
       \/ "error" \in p_out.output

\* ------------------------------------------------------------------------
\* Two sessions of one process
\* ------------------------------------------------------------------------
\* Streamlit runs the script of each browser session in the same process;
\* every session-bound value of the program is read and written through
\* st.session_state, which is the state of the session whose script runs.
\* The OpenAI client / AssistantManager and the provider functions are the
\* process's, and hold no thread handle, run handle or message.
Sessions == {1, 2}
\* send_message is called while message_log holds fewer entries than this
MaxSessionLog == 2
\* assistant messages the remote service writes into one thread
MaxThreadPosts == 1

\* st.session_state inside the script run of session s
StateOwnerGlobal(s) == 1
StateOwner(s) == s

\* the session state the script's first execution sets up
FreshSession == [thread_id |-> None, run_id |-> None, messages |-> <<WelcomeEntry>>]
\* a thread as threads.create() leaves it
FreshThread == [msgs |-> <<>>, runs |-> 0, status |-> Unset, posts |-> 0]

SessionsInit ==
  /\ \E v \in Variants : InitSession(v, "turns", 0)
  /\ RetryIdle
  /\ ProviderIdle
  /\ ManagerIdle
  /\ AssistantIdle
  /\ session_state = [s \in Sessions |-> FreshSession]
  /\ svc_threads = <<>>
  /\ acting = 0

SessionsFrame ==
  UNCHANGED <<retryVars, providerVars, managerVars, assistantVars, dispatched, script_pc,
              variant, focus, assistant_manager, sessionVars, st_errors, last,
              remoteVars, sends>>

\* send_message(message) in the script run of session s; the manager /
\* client is initialised
SessionSend(s) ==
  \E fault \in SendFaults :
    LET o == StateOwner(s)
        me == session_state[o]
        needThread == NeedsThread(me.thread_id)
        threadFails == needThread /\ fault = "thread"
        created == needThread /\ ~threadFails
        tid == IF created THEN Len(svc_threads) + 1 ELSE me.thread_id
        threads == IF created THEN Append(svc_threads, FreshThread) ELSE svc_threads
        aborted == threadFails /\ variant = "app"
        appended == ~aborted
        msgFails == \/ tid = None
                    \/ fault = "message"
                    \/ threads[tid].status \in ActiveStatuses
        forwarded == appended /\ ~msgFails
        started == forwarded /\ fault # "run"
    IN
    /\ Len(me.messages) < MaxSessionLog
    /\ acting' = s
    /\ session_state' =
         [session_state EXCEPT
            ![o] = [thread_id |-> IF appended THEN tid ELSE me.thread_id,
                    run_id |-> IF started THEN threads[tid].runs + 1
                               ELSE me.run_id,
                    messages |-> IF appended THEN Append(me.messages, UserEntry)
                                 ELSE me.messages]]
    /\ svc_threads' =
         IF forwarded
         THEN [threads EXCEPT
                 ![tid] = [msgs |-> Append(@.msgs, "user"),
                           runs |-> IF started THEN @.runs + 1 ELSE @.runs,
                           status |-> IF started THEN "queued" ELSE @.status,
                           posts |-> @.posts]]
         ELSE threads
    /\ SessionsFrame

\* process_run() in the script run of session s
SessionAdvance(s) ==
  \E ok \in BOOLEAN :
    LET o == StateOwner(s)
        me == session_state[o]
        th == svc_threads[me.thread_id]
        page == ListMessages(th.msgs, LastMessageId(me.messages))
        new == FirstNew(page, th.msgs, me.messages)
    IN
    /\ me.thread_id # None /\ me.run_id # None
    /\ acting' = s
    /\ IF ~ok
       THEN \* a call to the remote service raises: the except clause
            /\ session_state' =
                 [session_state EXCEPT ![o].run_id = RunIdAfterException(@)]
            /\ UNCHANGED svc_threads
       ELSE IF th.status = "requires_action"
       THEN /\ svc_threads' = [svc_threads EXCEPT ![me.thread_id].status = "in_progress"]
            /\ UNCHANGED session_state
       ELSE IF th.status = "completed"
       THEN /\ session_state' =
                 IF new # 0
                 THEN [session_state EXCEPT
                         ![o].messages = Append(@, AssistantEntry(new))]
                 ELSE [session_state EXCEPT
                         ![o].run_id = RunIdAfterCompleted(@)]
            /\ UNCHANGED svc_threads
       ELSE IF th.status \in FailureStatuses
       THEN /\ session_state' =
                 [session_state EXCEPT ![o].run_id = RunIdAfterFailure(@)]
            /\ UNCHANGED svc_threads
       ELSE UNCHANGED <<session_state, svc_threads>>
    /\ SessionsFrame

\* a step of the remote service on the newest run of thread t
ThreadStep(t) ==
  LET th == svc_threads[t]
  IN
  /\ acting' = 0
  /\ UNCHANGED session_state
  /\ \/ /\ th.status = "queued"
        /\ svc_threads' = [svc_threads EXCEPT ![t].status = "in_progress"]
     \/ /\ th.status = "in_progress"
        /\ \E s \in {"requires_action", "completed"} :
             svc_threads' = [svc_threads EXCEPT ![t].status = s]
     \/ /\ th.status = "in_progress" /\ th.posts < MaxThreadPosts
        /\ svc_threads' = [svc_threads EXCEPT
                             ![t].msgs = Append(@, "assistant"),
                             ![t].posts = @ + 1]
     \/ /\ th.status \in ActiveStatuses
        /\ svc_threads' = [svc_threads EXCEPT ![t].status = "failed"]
  /\ SessionsFrame

SessionsSend == \E s \in Sessions : SessionSend(s)
SessionsAdvance == \E s \in Sessions : SessionAdvance(s)
ThreadsStep == \E t \in 1..Len(svc_threads) : ThreadStep(t)

SessionsNext ==
  \/ SessionsSend
  \/ SessionsAdvance
  \/ ThreadsStep

SpecSessions == SessionsInit /\ [][SessionsNext]_vars

\* ------------------------------------------------------------------------
\* Properties of two interleaved sessions
\* ------------------------------------------------------------------------
\* C21: whatever the order in which the send_message and process_run calls
\* of two sessions and the steps of the remote service interleave, a call
\* made by one session leaves the message_log, the thread handle and the run
\* handle of the other session as they were; no two sessions hold the same
\* thread.
C21_NoCrossSessionMutation ==
  /\ [][\A s \in Sessions :
          acting' # s => session_state'[s] = session_state[s]]_vars
  /\ [](\A s, u \in Sessions :
          (s # u /\ session_state[s].thread_id # None)
            => session_state[s].thread_id # session_state[u].thread_id)

\* C21 witness: both sessions are in the middle of a turn: the second has
\* just appended the assistant's answer of its run, the first holds the
\* handle of a run that is still going on.
C21_Witness ==
  /\ acting = 2
  /\ session_state[1].run_id # None /\ session_state[2].run_id # None
  /\ svc_threads[session_state[1].thread_id].status \in ActiveStatuses
  /\ Len(session_state[2].messages) = 3
  /\ "id" \in DOMAIN session_state[2].messages[3]
  /\ Len(session_state[1].messages) = 2

\* ------------------------------------------------------------------------
\* Further properties of the session
\* ------------------------------------------------------------------------
\* the id of the most recent entry of the log that was taken from the remote
\* thread (the welcome entry is not one), None when there is none
RECURSIVE LastIncorporatedId(_)
LastIncorporatedId(log) ==
  IF log = <<>> THEN None
  ELSE IF "id" \in DOMAIN log[Len(log)] /\ log[Len(log)].id # WelcomeId
       THEN log[Len(log)].id
       ELSE LastIncorporatedId(SubSeq(log, 1, Len(log) - 1))

\* the ids of a page
PageIds(page) == {page[k] : k \in 1..Len(page)}

\* C22 as claimed: a process_run call that sees the run completed lists the
\* messages after the id of the most recent log entry that has one, also
\* when the last entry of the log is a user entry without id, so that every
\* message it fetches is newer than that one.
C22_WatermarkIsLastIncorporated ==
  [][(ProcessRunCompleted /\ last'.fault = "none")
       => /\ LastMessageId(messages) = LastIncorporatedId(messages)
          /\ \A id \in PageIds(ListMessages(thread, LastMessageId(messages))) :
               id > LastIncorporatedId(messages)]_vars

\* the step is a call of process_run
ProcessRunCall == last'.tick # last.tick /\ last'.op = "process_run"
\* the step is a call of process_run that found the run in requires_action
\* and went into that branch
DispatchCall == ProcessRunCall /\ last'.status = "requires_action"

\* no value occurs twice in the sequence
NoRepeat(seq) == \A i, j \in 1..Len(seq) : i # j => seq[i] # seq[j]

\* the ids of the pending batch, in order
BatchIds(calls) == [i \in 1..Len(calls) |-> calls[i].id]

\* C23 as claimed: over any sequence of process_run calls a tool call id is
\* dispatched to its handler at most once and a result for a tool call id is
\* submitted at most once, and every process_run call that sees
\* requires_action submits the outputs of the batch, once.
C23_HandledOnceSubmittedOnce ==
  /\ [](NoRepeat(dispatched.invoked) /\ NoRepeat(dispatched.submitted))
  /\ [][DispatchCall
          => /\ submit_count' = submit_count + 1
             /\ dispatched'.submitted
                  = dispatched.submitted \o BatchIds(tool_calls)]_vars

\* C23 amended: a tool call id is dispatched to its handler at most once and
\* a result for a tool call id is submitted at most once.  A process_run call that
\* sees requires_action submits the results of the whole batch in one call
\* when no exception leaves execute_function and submit_tool_outputs is
\* accepted; when a handler or the argument parsing raises (App.py), or the
\* submission fails, nothing is submitted for the batch, the run handle is
\* cleared and the batch is never looked at again; when the run has left
\* requires_action before the dispatch (AssistantManager's second
\* retrieve), no call is dispatched and nothing is submitted.
C23_HandledOnceSubmittedAtMostOnce ==
  /\ [](NoRepeat(dispatched.invoked) /\ NoRepeat(dispatched.submitted))
  /\ [][DispatchCall
          => IF last'.fault = "none"
             THEN /\ submit_count' = submit_count + 1
                  /\ dispatched'.submitted
                       = dispatched.submitted \o BatchIds(tool_calls)
                  /\ run_id' = run_id
             ELSE /\ submit_count' = submit_count
                  /\ dispatched'.submitted = dispatched.submitted
                  /\ IF last'.fault = "moved"
                     THEN dispatched'.invoked = dispatched.invoked
                          /\ run_id' = run_id
                     ELSE run_id' = None]_vars

\* C23 witness: one run raised two batches; both were dispatched and
\* submitted, the second one a batch of two calls.
C23_Witness ==
  /\ last.op = "process_run" /\ last.status = "requires_action"
  /\ last.fault = "none"
  /\ submit_count = 2 /\ Len(submitted) = 2
  /\ Len(dispatched.submitted) >= 3
  /\ Len(dispatched.invoked) >= 2
  /\ dispatched.invoked[Len(dispatched.invoked)] = submitted[2].tool_call_id

\* ------------------------------------------------------------------------
\* Constructions of AssistantManager
\* ------------------------------------------------------------------------
\* The scripts of the sessions run in threads of one process; each may
\* evaluate AssistantManager(api_key=...), that is cls.__new__(cls, api_key)
\* and then self.__init__(api_key) on what __new__ returned.  Neither
\* method takes a lock, so the threads interleave between statements.
Callers == {1, 2}
\* constructions one thread makes
MaxConstructions == 1
\* the api_key argument; "" stands for no key (OPENAI_API_KEY is not set in
\* the environment either)
NoKey == ""
ApiKeys == {"sk-a", "sk-b", NoKey}

\* an object as super().__new__(cls) returns it: no attribute yet
NewObject ==
  [initialized |-> "unset", api_key |-> Unset, client |-> Unset,
   key_writes |-> 0, client_writes |-> 0]

CallerIdle == [pc |-> "idle", key |-> NoKey, self |-> None, ret |-> "none", made |-> 0]

ManagerInit ==
  /\ InitSession("webhook", "turns", 0)
  /\ RetryIdle
  /\ ProviderIdle
  /\ SessionsIdle
  /\ AssistantIdle
  /\ m_instance = None
  /\ m_objects = <<>>
  /\ m_calls = [c \in Callers |-> CallerIdle]

ManagerFrame ==
  UNCHANGED <<retryVars, providerVars, sessionsVars, assistantVars, dispatched, script_pc,
              variant, focus, assistant_manager, sessionVars, st_errors, last,
              remoteVars, sends>>

\* the thread goes to position pc
Goto(c, pc) == m_calls' = [m_calls EXCEPT ![c].pc = pc]
\* the construction ends: the object is returned, or an exception leaves it
Finish(c, ret) == m_calls' = [m_calls EXCEPT ![c].pc = "done", ![c].ret = ret]

\* AssistantManager(api_key=key) is evaluated
ManagerCall(c) ==
  \E key \in ApiKeys :
    /\ m_calls[c].pc \in {"idle", "done"}
    /\ m_calls[c].made < MaxConstructions
    /\ m_calls' = [m_calls EXCEPT
                     ![c] = [pc |-> "new_test", key |-> key, self |-> None,
                             ret |-> "none", made |-> @.made + 1]]
    /\ UNCHANGED <<m_instance, m_objects>>
    /\ ManagerFrame

\* __new__: "if cls._instance is None:"
NewTest(instance) == instance = None
NewCheck(c) ==
  /\ m_calls[c].pc = "new_test"
  /\ Goto(c, IF NewTest(m_instance) THEN "new_create" ELSE "new_return")
  /\ UNCHANGED <<m_instance, m_objects>>
  /\ ManagerFrame

\* __new__: "cls._instance = super(AssistantManager, cls).__new__(cls)"
NewCreate(c) ==
  /\ m_calls[c].pc = "new_create"
  /\ m_objects' = Append(m_objects, NewObject)
  /\ m_instance' = Len(m_objects) + 1
  /\ Goto(c, "new_flag")
  /\ ManagerFrame

\* __new__: "cls._instance._initialized = False", on the object the class
\* attribute names at that moment
NewFlag(c) ==
  /\ m_calls[c].pc = "new_flag"
  /\ m_objects' = [m_objects EXCEPT ![m_instance].initialized = "False"]
  /\ Goto(c, "new_return")
  /\ UNCHANGED m_instance
  /\ ManagerFrame

\* __new__: "return cls._instance"; __init__ is then called on that object
NewReturn(c) ==
  /\ m_calls[c].pc = "new_return"
  /\ m_calls' = [m_calls EXCEPT ![c].pc = "init_test", ![c].self = m_instance]
  /\ UNCHANGED <<m_instance, m_objects>>
  /\ ManagerFrame

\* __init__: "if self._initialized: return"; reading the attribute of an
\* object that has none yet raises AttributeError
InitTest(c) ==
  LET self == m_objects[m_calls[c].self]
  IN
  /\ m_calls[c].pc = "init_test"
  /\ CASE self.initialized = "unset" -> Finish(c, "raise")
       [] self.initialized = "True" -> Finish(c, "returned")
       [] OTHER -> Goto(c, "init_key")
  /\ UNCHANGED <<m_instance, m_objects>>
  /\ ManagerFrame

\* __init__: "self.api_key = api_key or os.getenv(...)"; "if not
\* self.api_key: raise ValueError"
InitKey(c) ==
  /\ m_calls[c].pc = "init_key"
  /\ m_objects' = [m_objects EXCEPT
                     ![m_calls[c].self].api_key =
                        IF m_calls[c].key = NoKey THEN Unset ELSE m_calls[c].key,
                     ![m_calls[c].self].key_writes =
                        IF m_calls[c].key = NoKey THEN @ ELSE @ + 1]
  /\ IF m_calls[c].key = NoKey THEN Finish(c, "raise") ELSE Goto(c, "init_client")
  /\ UNCHANGED m_instance
  /\ ManagerFrame

\* __init__: "self.client = OpenAI(api_key=self.api_key)"
InitClient(c) ==
  /\ m_calls[c].pc = "init_client"
  /\ m_objects' = [m_objects EXCEPT
                     ![m_calls[c].self].client = m_objects[m_calls[c].self].api_key,
                     ![m_calls[c].self].client_writes = @ + 1]
  /\ Goto(c, "init_flag")
  /\ UNCHANGED m_instance
  /\ ManagerFrame

\* __init__: "self.assistant_id = None; self._initialized = True"
InitFlag(c) ==
  /\ m_calls[c].pc = "init_flag"
  /\ m_objects' = [m_objects EXCEPT ![m_calls[c].self].initialized = "True"]
  /\ Finish(c, "returned")
  /\ UNCHANGED m_instance
  /\ ManagerFrame

ManagerNext ==
  \E c \in Callers :
    \/ ManagerCall(c)
    \/ NewCheck(c)
    \/ NewCreate(c)
    \/ NewFlag(c)
    \/ NewReturn(c)
    \/ InitTest(c)
    \/ InitKey(c)
    \/ InitClient(c)
    \/ InitFlag(c)

SpecManager == ManagerInit /\ [][ManagerNext]_vars

\* ------------------------------------------------------------------------
\* Properties of the constructions
\* ------------------------------------------------------------------------
\* C24 as claimed: every construction that has returned, returned the same
\* object; no construction is left by an exception other than the missing
\* key's; the object's api_key and client are written once, and once the
\* object is initialised no construction changes them.
C24_OneInstanceInitialisedOnce ==
  /\ [](\A c, d \in Callers :
          (m_calls[c].ret = "returned" /\ m_calls[d].ret = "returned")
            => m_calls[c].self = m_calls[d].self)
  /\ [](\A c \in Callers :
          m_calls[c].ret = "raise" => m_calls[c].key = NoKey)
  /\ [](\A k \in 1..Len(m_objects) :
          m_objects[k].key_writes <= 1 /\ m_objects[k].client_writes <= 1)
  /\ [][\A k \in 1..Len(m_objects) :
          m_objects[k].initialized = "True"
            => /\ m_objects'[k].api_key = m_objects[k].api_key
               /\ m_objects'[k].client = m_objects[k].client]_vars

\* what a process_run call may change of the session and of the dispatch
pollFrame == <<messages, thread_id, run_id, dispatched, submitted, submit_count>>

\* C25: a process_run call made with no run to process, and one that finds
\* the run queued, in_progress or in any status other than requires_action,
\* completed, failed, cancelled and expired, leaves message_log, the thread
\* handle and the run handle unchanged, runs no handler and submits nothing
\* (the second also returns True); a call that finds requires_action and
\* whose submission is accepted leaves message_log and both handles
\* unchanged and returns True.
C25_PollingChangesNothing ==
  /\ [][(ProcessRunCall /\ ~CanProcess) => UNCHANGED pollFrame]_vars
  /\ [][(ProcessRunCall /\ CanProcess /\ last'.fault # "retrieve"
           /\ RunStatus(run_id) \notin
                {"requires_action", "completed"} \cup FailureStatuses)
          => UNCHANGED pollFrame /\ last'.ret = "True"]_vars
  /\ [][(ProcessRunCall /\ CanProcess /\ last'.fault = "none"
           /\ RunStatus(run_id) = "requires_action")
          => /\ UNCHANGED <<messages, thread_id, run_id>>
             /\ last'.ret = "True"]_vars

\* C25 witness: after the outputs of a batch were submitted, process_run was
\* called again, found the run in progress and returned True with the run
\* handle still set.
C25_Witness ==
  /\ last.op = "process_run" /\ last.status = "in_progress"
  /\ last.ret = "True" /\ run_id # None
  /\ submit_count = 1 /\ Len(dispatched.submitted) > 0

\* ------------------------------------------------------------------------
\* Termination of a provider network call
\* ------------------------------------------------------------------------
\* C26 as claimed: every provider network call returns or fails within a
\* bounded wait, also when the remote endpoint never answers, so that the
\* process_run call that dispatched it terminates.
C26_NetworkCallReturns == <>(r_pc = "done")

\* C27: whatever the backend answers, call_webhook_with_retry ends after at
\* most 3 requests and at most 2 delays, the delay before attempt k+1 being
\* 0.5 * 2^(k-1) units, and it returns a payload or an {error} record, never
\* nothing.
C27_BoundedRetriesReturnValue ==
  /\ [](r_fn = "webhook" =>
          /\ r_requests <= 3 /\ Len(r_delays) <= 2
          /\ \A k \in 1..Len(r_delays) : r_delays[k] = BackoffTenths * 2 ^ (k - 1)
          /\ r_pc = "done" => r_result \in {"payload", "error"})
  /\ (r_fn = "webhook" => <>(r_pc = "done"))

\* C27 witness: three requests were answered 500; the call slept 0.5 and
\* 1.0 units and returned {error}.
C27_Witness ==
  /\ RetryDone /\ r_requests = 3 /\ r_delays = <<5, 10>>
  /\ r_responses[3] = Status500 /\ r_result = "error" /\ r_st_error

\* ------------------------------------------------------------------------
\* Provider failures during a dispatch
\* ------------------------------------------------------------------------
\* a process_run call that found requires_action, and in which the backend
\* request of some handler failed for good
ProviderFailedInDispatch ==
  DispatchCall /\ "provider_request" \in st_errors'

\* the results just submitted hold the failure payload of a handler that ran
FailurePayloadSubmitted ==
  \E i \in 1..Len(tool_calls) : \E j \in 1..Len(submitted') :
    /\ submitted'[j].tool_call_id = tool_calls[i].id
    /\ HandlerRuns(variant, tool_calls[i])
    /\ submitted'[j].output = FailureFields(variant, tool_calls[i].name)

RunLevelErrors == {"run_status"}
SendLevelErrors == {"send"}

C30_LogAppendOnly ==
  [][/\ Len(messages') \in {Len(messages), Len(messages) + 1}
     /\ SubSeq(messages', 1, Len(messages)) = messages]_vars

\* C30 witness: the second send_message of a session failed on the remote
\* service; its user entry was appended behind the first turn's entries.
C30_Witness ==
  /\ last.op = "send" /\ last.ret # "sent" /\ last.fault \in {"message", "run"}
  /\ Len(messages) = 4
  /\ "id" \in DOMAIN messages[3] /\ messages[3].id # WelcomeId
  /\ "id" \notin DOMAIN messages[4] /\ "id" \notin DOMAIN messages[2]

\* ------------------------------------------------------------------------
\* Further properties of a provider operation
\* ------------------------------------------------------------------------
\* C31: create_reservation books the number of units requested: whenever it
\* sends the booking request, the request carries a quantity, and that
\* quantity is the quantity argument of the tool call, 1 when the argument
\* was left out.
C31_QuantityBooked ==
  (/\ p_op = "create_reservation"
   /\ "request" \in DOMAIN p_out)
    => /\ "quantity" \in DOMAIN p_out.request
       /\ p_out.request.quantity = ArgQuantity(p_in.quantity)

\* C32: in the front-end that configures its assistant (the webhook one),
\* the configured function names are the names dispatch accepts: a call with
\* a configured name reaches the handler of that name with the argument
\* names its schema declares, and a call with any other name returns an
\* error payload and reaches no handler.
C32_ConfiguredNamesAreDispatched ==
  (/\ p_op = "execute_function"
   /\ variant = "webhook"
   /\ p_in.args = "json")
    => /\ p_in.name \in ConfiguredNames =>
            /\ p_out.handler = p_in.name
            /\ p_out.arg_names = ConfiguredTools[p_in.name]
       /\ p_in.name \notin ConfiguredNames =>
            /\ p_out.handler = NoHandler
            /\ ~p_out.raised
            /\ p_out.output = {"error"}

\* a configured name was dispatched to its handler with five arguments, and
\* a name of the other front-end was refused
C32_Witness ==
  /\ p_op = "execute_function"
  /\ variant = "webhook"
  /\ p_in.args = "json"
  /\ p_in.name = "create_reservation"
  /\ p_out.handler = "create_reservation"
  /\ Cardinality(p_out.arg_names) = 5

C32_WitnessRefused ==
  /\ p_op = "execute_function"
  /\ variant = "webhook"
  /\ p_in.args = "json"
  /\ p_in.name = "book_order"
  /\ p_out.handler = NoHandler
  /\ p_out.output = {"error"}

\* ------------------------------------------------------------------------
\* The end of a turn
\* ------------------------------------------------------------------------
\* The caller keeps calling process_run, and the assistant service keeps
\* working on a run until it has reached completed, failed, cancelled or
\* expired (a run that waits for tool outputs expires).
\* The session at the start of a turn: a fresh one whose run will ask for tool
\* calls, or one that has been used for HistTurns turns.
TurnInit ==
  /\ RetryIdle
  /\ ProviderIdle
  /\ OthersIdle
  /\ \E v \in Variants :
       \/ InitSession(v, "turns", HistTurns)
       \/ InitSession(v, "tools", 0)

SpecTurn ==
  /\ TurnInit
  /\ [][Next]_vars
  /\ WF_vars(ProcessRun /\ UNCHANGED script_pc)
  /\ WF_vars(Remote /\ UNCHANGED script_pc)

\* send_message goes through: the message is forwarded and a run created
SendAccepted ==
  /\ SendMessage
  /\ UNCHANGED script_pc
  /\ last'.ret = "sent"
  /\ run_id' # None

\* a session whose assistant is set up, whose turn has ended and whose
\* thread holds no active run
TurnEnded ==
  /\ assistant_manager # Unset
  /\ run_id = None
  /\ ~HasActiveRun
  /\ IF focus = "turns" THEN sends < MaxSends ELSE sends = 0

\* C33: with process_run called again and again and the run of the turn
\* reaching completed, failed, cancelled or expired, a run handle that is
\* set is eventually cleared, and in a session whose turn has ended a send
\* goes through.
C33_TurnEndsAndSendAccepted ==
  /\ (run_id # None) ~> (run_id = None)
  /\ [](TurnEnded => ENABLED SendAccepted)

\* the handle of a run that completed after the assistant wrote a message
\* has been cleared by a call of process_run that found nothing new
C33_Witness ==
  /\ run_id = None
  /\ runs_created > 0
  /\ run_status = "completed"
  /\ posts > 0
  /\ last.op = "process_run" /\ last.status = "completed" /\ last.ret = "False"
  /\ TurnEnded

\* ------------------------------------------------------------------------
\* Failures of the assistant service inside process_run
\* ------------------------------------------------------------------------
\* the remote calls of process_run: runs.retrieve, submit_tool_outputs,
\* messages.list
RemoteCallFaults == {"retrieve", "submit", "list"}

\* C34: a process_run call in which runs.retrieve, submit_tool_outputs or
\* messages.list fails reports an error in the UI, clears the run handle,
\* leaves the message log as it was and returns False; so it does when the
\* handlers of the batch had run before the submission failed.
C34_RemoteFailureEndsProcessing ==
  [][(ProcessRunCall /\ last'.fault \in RemoteCallFaults)
       => /\ "processing" \in st_errors'
          /\ run_id # None
          /\ run_id' = None
          /\ messages' = messages
          /\ last'.ret = "False"]_vars

\* the submission failed after the handler of the batch's call had run
C34_Witness ==
  /\ last.op = "process_run"
  /\ last.status = "requires_action"
  /\ last.fault = "submit"
  /\ dispatched.invoked # <<>>
  /\ dispatched.submitted = <<>>
  /\ tool_calls # <<>>
  /\ run_id = None
  /\ "processing" \in st_errors

\* ------------------------------------------------------------------------
\* The message log and the remote thread
\* ------------------------------------------------------------------------
\* the number of user entries of message_log
RECURSIVE LogUserCount(_)
LogUserCount(log) ==
  IF log = <<>> THEN 0
  ELSE (IF Head(log).role = "user" THEN 1 ELSE 0) + LogUserCount(Tail(log))

\* the number of user messages the remote thread holds
RECURSIVE ThreadUserCount(_)
ThreadUserCount(th) ==
  IF th = <<>> THEN 0
  ELSE (IF Head(th) = "user" THEN 1 ELSE 0) + ThreadUserCount(Tail(th))

\* C35: between calls of send_message, message_log holds one user entry for
\* each user message that was forwarded to the remote thread and no other
\* (entries and messages are both appended in call order), and after a send
\* that did not start a run the run handle is empty.
C35_LogMatchesThread ==
  /\ LogUserCount(messages) = ThreadUserCount(thread)
  /\ (last.op = "send" /\ last.ret # "sent") => run_id = None

\* C36: a successful get_product_details result has rental_days >= 1 and
\* total_price >= 0 for every pair of dates that parse, a range whose end is
\* before its start included.
C36_DaysAndTotalNotNegative ==
  (/\ p_op = "get_product_details"
   /\ p_out.kind = "success"
   /\ Parses(p_in.from_date) /\ Parses(p_in.to_date))
    => /\ p_out.rental_days >= 1
       /\ p_out.total_price >= 0

\* the two date arguments of a call of one of the four operations that take
\* dates
DateArguments ==
  IF p_op \in {"get_product_details", "check_availability"}
  THEN <<p_in.from_date, p_in.to_date>>
  ELSE <<p_in.start_date, p_in.end_date>>

\* C37: create_reservation, create_order, check_availability and
\* get_product_details, given a date that is not a valid YYYY-MM-DD text
\* (left out, or naming no day of the calendar), return an error payload and
\* send no request to the backend.
C37_InvalidDateSendsNothing ==
  (/\ p_op \in {"create_reservation", "create_order", "check_availability",
                "get_product_details"}
   /\ \E i \in 1..2 : ~Parses(DateArguments[i]))
    => /\ p_out.kind = "error"
       /\ p_out.requests = <<>>

\* ------------------------------------------------------------------------
\* AssistantManager.get_or_create_assistant
\* ------------------------------------------------------------------------
\* assistants.create calls followed
MaxAssistants == 2

\* "self.assistant_id = f.read().strip()"
ReadSavedIdLost(saved) == None
ReadSavedId(saved) == saved

\* client.beta.assistants.retrieve(id) returns: the service answers and holds
\* an assistant of that id
Retrieve(id, remote, answered) == answered /\ id \in remote

\* "if not self.assistant_id:"
NeedsCreate(id) == id = None

AssistantInit ==
  /\ InitSession("webhook", "turns", 0)
  /\ RetryIdle
  /\ ProviderIdle
  /\ SessionsIdle
  /\ ManagerIdle
  /\ a_self = None
  /\ a_last = NoAssistantCall
  /\ \/ a_file = None /\ a_created = 0 /\ a_remote = {}
     \/ a_file = 1 /\ a_created = 1 /\ a_remote \in {{}, {1}}

AssistantFrame ==
  UNCHANGED <<retryVars, providerVars, sessionsVars, managerVars, dispatched,
              script_pc, variant, focus, assistant_manager, sessionVars,
              st_errors, last, remoteVars, sends>>

\* what a call did: the id returned or that it raised, whether it created
\* an assistant, and whether the service answered its requests
AssistantResult(ret, raised, created, answered) ==
  [ret |-> ret, raised |-> raised, created |-> created, answered |-> answered,
   tick |-> 1 - a_last.tick]

\* get_or_create_assistant().  answered: the service answers the requests
\* of this call; writeOk: assistant_id.txt can be opened for writing
GetOrCreateAssistant ==
  \E answered \in BOOLEAN : \E writeOk \in BOOLEAN :
    LET hasFile == a_file # None
        loaded == IF hasFile THEN ReadSavedId(a_file) ELSE a_self
        verified == hasFile /\ Retrieve(loaded, a_remote, answered)
        \* the except clause of the verification sets self.assistant_id = None
        held == IF hasFile /\ ~verified THEN None ELSE loaded
        new == a_created + 1
    IN
    IF verified \/ ~NeedsCreate(held)
    THEN /\ a_self' = held
         /\ a_last' = AssistantResult(held, FALSE, FALSE, answered)
         /\ UNCHANGED <<a_file, a_remote, a_created>>
         /\ AssistantFrame
    ELSE IF ~answered
    THEN \* assistants.create raises
         /\ a_self' = held
         /\ a_last' = AssistantResult(None, TRUE, FALSE, answered)
         /\ UNCHANGED <<a_file, a_remote, a_created>>
         /\ AssistantFrame
    ELSE /\ a_created < MaxAssistants
         /\ a_created' = new
         /\ a_remote' = a_remote \cup {new}
         /\ a_self' = new
         /\ a_file' = IF writeOk THEN new ELSE a_file
         /\ a_last' = AssistantResult(IF writeOk THEN new ELSE None, ~writeOk,
                                      TRUE, answered)
         /\ AssistantFrame

\* the assistant is deleted at the service
AssistantDeleted ==
  \E id \in a_remote :
    /\ a_remote' = a_remote \ {id}
    /\ UNCHANGED <<a_file, a_self, a_created, a_last>>
    /\ AssistantFrame

\* assistant_id.txt is removed (a new deployment, a cleared working directory)
SavedFileRemoved ==
  /\ a_file # None
  /\ a_file' = None
  /\ UNCHANGED <<a_self, a_remote, a_created, a_last>>
  /\ AssistantFrame

\* the process starts again: AssistantManager.__init__ sets
\* self.assistant_id = None
ManagerRestarted ==
  /\ a_self # None
  /\ a_self' = None
  /\ UNCHANGED <<a_file, a_remote, a_created, a_last>>
  /\ AssistantFrame

AssistantNext ==
  \/ GetOrCreateAssistant
  \/ AssistantDeleted
  \/ SavedFileRemoved
  \/ ManagerRestarted

SpecAssistant == AssistantInit /\ [][AssistantNext]_vars

\* a get_or_create_assistant call is made
AssistantCall == a_last'.tick # a_last.tick

\* the saved id is retrievable during the call
SavedIdRetrievable == a_file # None /\ a_file \in a_remote /\ a_last'.answered

\* C38: a get_or_create_assistant call made while the saved id is
\* retrievable returns the saved id, creates no assistant and leaves the
\* saved id as it is (so every call of a sequence of such calls returns the
\* same id); a call creates an assistant only when no id is saved or the
\* saved id could not be retrieved, and only a call that created an
\* assistant replaces the saved id.
C38_SavedAssistantReused ==
  [][AssistantCall
       => /\ SavedIdRetrievable =>
               /\ ~a_last'.raised
               /\ a_last'.ret = a_file
               /\ a_created' = a_created
               /\ a_file' = a_file
          /\ a_created' # a_created =>
               /\ a_last'.created
               /\ a_file = None \/ ~SavedIdRetrievable
          /\ a_file' # a_file =>
               /\ a_created' = a_created + 1
               /\ a_file' = a_created']_vars

\* the saved id was found retrievable a second time, after the call that
\* created and saved it, and returned again
C38_Witness ==
  /\ a_created = 1
  /\ a_file = 1
  /\ a_remote = {1}
  /\ ~a_last.raised
  /\ ~a_last.created
  /\ a_last.answered
  /\ a_last.ret = 1
  /\ a_last.tick = 0
====
